---- MODULE Spec2Model ----
(***************************************************************************)
(* A model of the concurrency examples of learn-rust-with-tests:           *)
(*   - examples/sync/src/v2.rs         Counter (RwLock<usize>)             *)
(*   - examples/select/src/v5.rs       race / race_with_configuration      *)
(*   - examples/concurrency/src/v4.rs  check_websites                      *)
(* Each component has its own specification (SpecCounter, SpecRace,        *)
(* SpecCheck); the variables of the other components stay at their initial *)
(* values.                                                                 *)
(***************************************************************************)
EXTENDS Integers, Sequences, FiniteSets, TLC

VARIABLES
    \* ---- Counter (sync/src/v2.rs) ----
    value,          \* the usize inside the RwLock
    writer,         \* the task holding the write guard, 0 when none
    readers,        \* the tasks holding a read guard
    cpc,            \* cpc[t]: where task t is inside increase() / value()
    ctmp,           \* ctmp[t]: the value task t loaded for its += 1
    cret,           \* cret[t]: what task t's value() call read
    incStarted,     \* calls of increase() made so far
    incDone,        \* calls of increase() that have returned
    readsStarted,   \* calls of value() made so far
    overlapped,     \* history: some increase() was called while another was in flight
    cFloor,         \* history: cFloor[t], the increase() calls that had returned when
                    \* task t called value()
    cPrev,          \* history: cPrev[t], the highest number a value() call had returned
                    \* when task t called value()
    maxReturned     \* history: the highest number a value() call has returned

VARIABLES
    \* ---- race (select/src/v5.rs); every variable is indexed by the call ----
    clock,          \* time, in ticks; a tick is the granularity at which a task is woken
    rUrl,           \* rUrl[r] = <<url_1, url_2>>
    rVia,           \* rVia[r]: the function called: "race", "race_with_configuration", "race_v3", "race_v4"
    rArg,           \* rArg[r]: the timeout argument of the caller, 0 for None or none at all
    rTimeout,       \* rTimeout[r]: the timeout given to ping: 0 for None, T > 0 for Some(T)
    rBeh,           \* rBeh[r][i]: what the server behind attempt i does, and when
    rStart,         \* rStart[r]: the clock when the call started
    rPhase,         \* rPhase[r]: "Idle", "Pending", "Decided", "Done" or "Panicked"
    rDisabled,      \* rDisabled[r]: the select! branches whose future has completed
    rSeen,          \* rSeen[r][i]: what ping i returned to select!, "None" before
    rSeenAt,        \* rSeenAt[r][i]: the elapsed time at which it returned
    rFut,           \* rFut[r][i]: "alive", "completed" or "dropped"
    rBranch,        \* rBranch[r]: the select! handler that ran: 0 none, 1, 2, 3 = else;
                    \* 4: none, a poll panicked
    rResult,        \* rResult[r]: the value of the select! expression
    rEnd,           \* rEnd[r]: the elapsed time at which select! completed
    rReturns,       \* rReturns[r]: how many results the call has returned
    rLate           \* rLate[r]: attempts whose response arrived after they were dropped

VARIABLES
    \* ---- check_websites (concurrency/src/v4.rs) ----
    wUrls,          \* the slice urls
    wBeh,           \* wBeh[i]: what checker.check does for the i-th url
    wPc,            \* "spawning", "joining", "collecting" or "done"
    wTask,          \* wTask[i]: the task spawned for the i-th url
    wResponses,     \* the vector join_all(handles).await yields
    wResult,        \* the HashMap returned, a function from urls to booleans
    wWorkers,       \* the worker threads of the runtime; 0 leaves the scheduler open
    wDelay,         \* the ticks a check keeps its worker busy
    wClock,         \* the ticks since check_websites was called
    wLeft,          \* wLeft[i]: the ticks the i-th task still has to run
    wTrack,         \* whether the history wOrder is recorded
    wOrder          \* history: the indices of the tasks in the order they finished

VARIABLES
    \* ---- Wallet (errors/src/v5.rs) ----
    balance,        \* the field balance, a u64 kept at BitCoinBits bits
    walLast,        \* history: the last call, its argument, the balance before it, its result
    walCalls,       \* history: the calls made so far
    walDeposited,   \* history: the sum of the amounts of the deposits that returned
    walWithdrawn,   \* history: the sum of the amounts of the withdrawals that returned Ok
    walPanicked     \* a call panicked (arithmetic overflow with overflow checks on)

VARIABLES
    \* ---- Dictionary (maps/src/v5.rs) ----
    dict,           \* the HashMap, a function from the keys present to their values
    dLast           \* history: the last call, its arguments, the map before it, its result

VARIABLES
    \* ---- countdown (mocking/src/v4.rs, mocking/src/lib.rs) ----
    cdPc,           \* where countdown is: "idle", "write", "sleep", "final", "done", "panicked"
    cdI,            \* the loop variable i
    cdBuf,          \* the bytes write_all still has to hand to the writer
    cdOut,          \* the bytes the writer has taken
    cdOps,          \* history: the calls of write_all and sleep, in order
    cdWrites,       \* history: the calls of Write::write made by write_all
    cdChunk,        \* the writer: the most bytes it takes in one call of write
    cdFailAt        \* the writer: the call of write that returns an error, 0 for none

readHist == <<cFloor, cPrev, maxReturned>>

counterVars == <<value, writer, readers, cpc, ctmp, cret,
                 incStarted, incDone, readsStarted, overlapped, readHist>>

raceVars == <<clock, rUrl, rVia, rArg, rTimeout, rBeh, rStart, rPhase, rDisabled, rSeen, rSeenAt,
              rFut, rBranch, rResult, rEnd, rReturns, rLate>>

checkVars == <<wUrls, wBeh, wPc, wTask, wResponses, wResult,
               wWorkers, wDelay, wClock, wLeft, wTrack, wOrder>>

walletVars == <<balance, walLast, walCalls, walDeposited, walWithdrawn, walPanicked>>

dictVars == <<dict, dLast>>

countdownVars == <<cdPc, cdI, cdBuf, cdOut, cdOps, cdWrites, cdChunk, cdFailAt>>

vars == <<counterVars, raceVars, checkVars, walletVars, dictVars, countdownVars>>

notCounterVars == <<raceVars, checkVars, walletVars, dictVars, countdownVars>>
notRaceVars == <<counterVars, checkVars, walletVars, dictVars, countdownVars>>
notCheckVars == <<counterVars, raceVars, walletVars, dictVars, countdownVars>>
notWalletVars == <<counterVars, raceVars, checkVars, dictVars, countdownVars>>
notDictVars == <<counterVars, raceVars, checkVars, walletVars, countdownVars>>
notCountdownVars == <<counterVars, raceVars, checkVars, walletVars, dictVars>>

(***************************************************************************)
(* Bounds                                                                  *)
(***************************************************************************)
NumTasks == 3
MaxIncreases == 3
MaxReads == 2
MaxDelay == 3
MaxTimeout == 3
MaxUrls == 3
BitCoinBits == 3
MaxWalletCalls == 3
MaxChunk == 3
MaxFailAt == 4
MaxWorkers == 3
MaxCheckTime == 2

Tasks == 1..NumTasks

(***************************************************************************)
(* Counter: sync/src/v2.rs                                                 *)
(***************************************************************************)

\* Counter::new() = Self::default(): the value is 0 and the lock is free.
CounterNew ==
    /\ value = 0
    /\ writer = 0
    /\ readers = {}
    /\ cpc = [t \in Tasks |-> "idle"]
    /\ ctmp = [t \in Tasks |-> 0]
    /\ cret = [t \in Tasks |-> 0]
    /\ incStarted = 0
    /\ incDone = 0
    /\ readsStarted = 0
    /\ overlapped = FALSE
    /\ cFloor = [t \in Tasks |-> 0]
    /\ cPrev = [t \in Tasks |-> 0]
    /\ maxReturned = 0

\* Tasks that are inside a call of increase().
IncInFlight == {t \in Tasks : cpc[t] \in {"inc_wait", "inc_locked", "inc_loaded", "inc_stored"}}

\* A plausible slip: the update is made without taking the lock.
CanWriteUnsynchronised == TRUE

\* A plausible slip (a lock that only keeps writers apart): a writer does not
\* wait for the readers.
CanWriteIgnoresReaders == writer = 0

\* RwLock::write(): granted when nobody holds a read or a write guard.
CanWrite == writer = 0 /\ readers = {}

\* A plausible slip: a reader does not wait for the writer.
CanReadUnsynchronised == TRUE

\* RwLock::read(): granted when nobody holds the write guard.
CanRead == writer = 0

\* A task calls increase().
IncreaseCall(t) ==
    /\ cpc[t] = "idle"
    /\ incStarted < MaxIncreases
    /\ cpc' = [cpc EXCEPT ![t] = "inc_wait"]
    /\ incStarted' = incStarted + 1
    /\ overlapped' = (overlapped \/ IncInFlight # {})
    /\ UNCHANGED <<value, writer, readers, ctmp, cret, incDone, readsStarted>>
    /\ UNCHANGED readHist
    /\ UNCHANGED notCounterVars

\* self.value.write().unwrap()
WriteAcquire(t) ==
    /\ cpc[t] = "inc_wait"
    /\ CanWrite
    /\ writer' = t
    /\ cpc' = [cpc EXCEPT ![t] = "inc_locked"]
    /\ UNCHANGED <<value, readers, ctmp, cret, incStarted, incDone, readsStarted, overlapped>>
    /\ UNCHANGED readHist
    /\ UNCHANGED notCounterVars

\* *guard += 1, first half: load the current value.
IncLoad(t) ==
    /\ cpc[t] = "inc_locked"
    /\ ctmp' = [ctmp EXCEPT ![t] = value]
    /\ cpc' = [cpc EXCEPT ![t] = "inc_loaded"]
    /\ UNCHANGED <<value, writer, readers, cret, incStarted, incDone, readsStarted, overlapped>>
    /\ UNCHANGED readHist
    /\ UNCHANGED notCounterVars

\* *guard += 1, second half: store the loaded value plus one.
IncStore(t) ==
    /\ cpc[t] = "inc_loaded"
    /\ value' = ctmp[t] + 1
    /\ cpc' = [cpc EXCEPT ![t] = "inc_stored"]
    /\ UNCHANGED <<writer, readers, ctmp, cret, incStarted, incDone, readsStarted, overlapped>>
    /\ UNCHANGED readHist
    /\ UNCHANGED notCounterVars

\* A plausible slip (the guard kept alive, as by mem::forget or a guard stored
\* in the struct): the lock stays taken after increase() has returned.
WriterAfterDropLeaked(t) == writer

\* The lock once task t has dropped its write guard.
WriterAfterDrop(t) == IF writer = t THEN 0 ELSE writer

\* The write guard is dropped at the end of the statement; increase() returns.
WriteRelease(t) ==
    /\ cpc[t] = "inc_stored"
    /\ writer' = WriterAfterDrop(t)
    /\ cpc' = [cpc EXCEPT ![t] = "idle"]
    /\ incDone' = incDone + 1
    /\ ctmp' = [ctmp EXCEPT ![t] = 0]
    /\ UNCHANGED <<value, readers, cret, incStarted, readsStarted, overlapped>>
    /\ UNCHANGED readHist
    /\ UNCHANGED notCounterVars

\* A task calls value().
ValueCall(t) ==
    /\ cpc[t] = "idle"
    /\ readsStarted < MaxReads
    /\ cpc' = [cpc EXCEPT ![t] = "val_wait"]
    /\ readsStarted' = readsStarted + 1
    /\ cFloor' = [cFloor EXCEPT ![t] = incDone]
    /\ cPrev' = [cPrev EXCEPT ![t] = maxReturned]
    /\ UNCHANGED <<value, writer, readers, ctmp, cret, incStarted, incDone, overlapped,
                   maxReturned>>
    /\ UNCHANGED notCounterVars

\* self.value.read().unwrap()
ReadAcquire(t) ==
    /\ cpc[t] = "val_wait"
    /\ CanRead
    /\ readers' = readers \cup {t}
    /\ cpc' = [cpc EXCEPT ![t] = "val_locked"]
    /\ UNCHANGED <<value, writer, ctmp, cret, incStarted, incDone, readsStarted, overlapped>>
    /\ UNCHANGED readHist
    /\ UNCHANGED notCounterVars

\* What a load of the usize can yield: the value when no write guard is
\* out, as the lock makes sure. A load beside a task that holds the write
\* guard would be a data race, and could yield anything.
ReadValues == IF writer = 0 THEN {value} ELSE 0..(MaxIncreases + 1)

\* *guard: copy the value out.
ReadLoad(t) ==
    /\ cpc[t] = "val_locked"
    /\ \E v \in ReadValues : cret' = [cret EXCEPT ![t] = v]
    /\ cpc' = [cpc EXCEPT ![t] = "val_loaded"]
    /\ UNCHANGED <<value, writer, readers, ctmp, incStarted, incDone, readsStarted, overlapped>>
    /\ UNCHANGED readHist
    /\ UNCHANGED notCounterVars

\* The read guard is dropped; value() returns cret[t], which the history
\* keeps as far as later reads are concerned.
ReadRelease(t) ==
    /\ cpc[t] = "val_loaded"
    /\ readers' = readers \ {t}
    /\ cpc' = [cpc EXCEPT ![t] = "idle"]
    /\ maxReturned' = IF cret[t] > maxReturned THEN cret[t] ELSE maxReturned
    /\ cFloor' = [cFloor EXCEPT ![t] = 0]
    /\ cPrev' = [cPrev EXCEPT ![t] = 0]
    /\ cret' = [cret EXCEPT ![t] = 0]
    /\ UNCHANGED <<value, writer, ctmp, incStarted, incDone, readsStarted, overlapped>>
    /\ UNCHANGED notCounterVars

(***************************************************************************)
(* race: select/src/v5.rs                                                  *)
(***************************************************************************)

Races == {1, 2}
Branches == {1, 2}
Urls == {"url_a", "url_b"}
Delays == 0..MaxDelay
Timeouts == 0..MaxTimeout

\* const DEFAULT_TIMEOUT: Duration = Duration::from_secs(10), in ticks.
DEFAULT_TIMEOUT == 10

\* Nothing happens later than the last answer and the last timeout of the
\* calls that were made: time is followed one tick beyond them.
MaxClock ==
    LET times == {rTimeout[r] : r \in {1, 2}}
                    \cup {rBeh[r][i].at : r \in {1, 2}, i \in {1, 2}}
    IN  1 + CHOOSE t \in times : \A u \in times : u <= t

\* What the server behind a url does with a GET: it answers with a success
\* status ("2xx") or another status ("4xx") after `at` ticks, the request
\* fails (no such host, connection refused) after `at` ticks ("error"), or
\* nothing ever comes back ("silent").
Behaviours ==
    [kind : {"2xx", "4xx", "error"}, at : Delays] \cup {[kind |-> "silent", at |-> 0]}

\* The code that the future of ping runs (reqwest, the runtime under it)
\* panics when it is polled `at` ticks after the request was made.
PanicBehaviours == [kind : {"panic"}, at : Delays]

NoResult == [ok |-> FALSE, val |-> "none"]
Ok(url) == [ok |-> TRUE, val |-> url]
Err(msg) == [ok |-> FALSE, val |-> msg]

\* Time since race r was called.
Elapsed(r) == clock - rStart[r]

\* request.send().await.map_err(|_| "failed to send request")?; Ok(())
\* send() yields Ok(response) for a response of any status and Err for a
\* transport error; ping keeps only that distinction.
SendResult(b) == IF b.kind \in {"2xx", "4xx"} THEN "Ok" ELSE "Err"

\* What a poll of the future of ping yields once send() is through: the
\* value ping returns, or the panic raised under the poll.
PollResult(b) == IF b.kind = "panic" THEN "Panic" ELSE SendResult(b)

\* A plausible slip: the configured timeout is not applied to the request.
PingPollNoTimeout(r, i) ==
    LET b == rBeh[r][i]
    IN  IF b.kind # "silent" /\ Elapsed(r) >= b.at THEN {PollResult(b)} ELSE {"Pending"}

\* A plausible slip (connect_timeout in place of timeout): the timeout bounds
\* the connection only, and a server that accepts the request and never
\* answers is waited for without end.
PingPollConnectTimeout(r, i) ==
    LET b == rBeh[r][i]
        T == rTimeout[r]
        responded == b.kind # "silent" /\ Elapsed(r) >= b.at
        timedOut == T # 0 /\ Elapsed(r) >= T /\ b.kind # "silent"
    IN  IF responded /\ timedOut
        THEN (IF b.at < T THEN {PollResult(b)}
              ELSE IF b.at = T THEN {PollResult(b), "Err"}
              ELSE {"Err"})
        ELSE IF responded THEN {PollResult(b)}
        ELSE IF timedOut THEN {"Err"}
        ELSE {"Pending"}

\* A plausible slip (timeout.unwrap_or_default()): None becomes a timeout of
\* zero, and a request without a time bound fails at once.
PingPollNoneIsZero(r, i) ==
    LET b == rBeh[r][i]
        T == rTimeout[r]
        responded == b.kind # "silent" /\ Elapsed(r) >= b.at
        timedOut == Elapsed(r) >= T
    IN  IF responded /\ timedOut
        THEN (IF b.at < T THEN {PollResult(b)}
              ELSE IF b.at = T THEN {PollResult(b), "Err"}
              ELSE {"Err"})
        ELSE IF responded THEN {PollResult(b)}
        ELSE IF timedOut THEN {"Err"}
        ELSE {"Pending"}

\* One poll of the future ping(&client, url_i, timeout) of race r: the set of
\* values the poll can yield at the current time. The request started with
\* the race; with Some(T) it fails once T has elapsed without a response.
\* When the response and the timeout fall on the same tick either may be seen.
PingPoll(r, i) ==
    LET b == rBeh[r][i]
        T == rTimeout[r]
        responded == b.kind # "silent" /\ Elapsed(r) >= b.at
        timedOut == T # 0 /\ Elapsed(r) >= T
    IN  IF responded /\ timedOut
        THEN (IF b.at < T THEN {PollResult(b)}
              ELSE IF b.at = T THEN {PollResult(b), "Err"}
              ELSE {"Err"})
        ELSE IF responded THEN {PollResult(b)}
        ELSE IF timedOut THEN {"Err"}
        ELSE {"Pending"}

\* A plausible slip (a hand-written poll loop): the remaining branches are
\* still polled after one has matched, and the last match is kept.
PollBranchKeepsPolling(st, i, o) ==
    IF st.chosen = 4 \/ i \in st.disabled THEN st
    ELSE IF o = "Pending" THEN [st EXCEPT !.pending = TRUE]
    ELSE IF o = "Panic" THEN [st EXCEPT !.disabled = @ \cup {i}, !.chosen = 4]
    ELSE IF o = "Ok" THEN [st EXCEPT !.disabled = @ \cup {i}, !.chosen = i]
    ELSE [st EXCEPT !.disabled = @ \cup {i}]

\* select! polls one branch: a disabled branch is skipped; a future that is
\* ready is disabled, and its branch is chosen when the value matches the
\* pattern Ok(_). The futures are polled in the task of the caller and
\* nothing catches a panic: a poll that panics unwinds through select! (4)
\* and no other branch is polled.
PollBranch(st, i, o) ==
    IF st.chosen # 0 \/ i \in st.disabled THEN st
    ELSE IF o = "Pending" THEN [st EXCEPT !.pending = TRUE]
    ELSE IF o = "Panic" THEN [st EXCEPT !.disabled = @ \cup {i}, !.chosen = 4]
    ELSE IF o = "Ok" THEN [st EXCEPT !.disabled = @ \cup {i}, !.chosen = i]
    ELSE [st EXCEPT !.disabled = @ \cup {i}]

\* A plausible slip (the select! of v3): the first future to complete decides,
\* a failure included.
SelectPollFirstDecides(disabled, start, outs) ==
    LET order == <<start, 3 - start>>
        ready == {k \in 1..2 : outs[order[k]] # "Pending"}
    IN  IF ready = {} THEN [disabled |-> disabled, branch |-> 0]
        ELSE LET k == CHOOSE x \in ready : \A y \in ready : x <= y
                 i == order[k]
             IN  [disabled |-> disabled \cup {i},
                  branch |-> IF outs[i] = "Ok" THEN i ELSE 3]

\* A plausible slip (no pattern on the branches): the first future to
\* complete wins, whatever it returned.
SelectPollFirstCompletionWins(disabled, start, outs) ==
    LET order == <<start, 3 - start>>
        ready == {k \in 1..2 : outs[order[k]] # "Pending"}
    IN  IF ready = {} THEN [disabled |-> disabled, branch |-> 0]
        ELSE LET k == CHOOSE x \in ready : \A y \in ready : x <= y
             IN  [disabled |-> disabled \cup {order[k]}, branch |-> order[k]]

\* The select! of v3: the branches bind the value without a pattern, so the
\* first future found ready is taken, whatever it returned; the handler
\* returns Ok(url) when the response is Ok, and otherwise control leaves the
\* select! and reaches the Err at the end of race (3).
SelectPollV3(disabled, start, outs) ==
    LET order == <<start, 3 - start>>
        ready == {k \in 1..2 : outs[order[k]] # "Pending"}
    IN  IF ready = {} THEN [disabled |-> disabled, branch |-> 0]
        ELSE LET k == CHOOSE x \in ready : \A y \in ready : x <= y
                 i == order[k]
             IN  IF outs[i] = "Panic" THEN [disabled |-> disabled \cup {i}, branch |-> 4]
                 ELSE [disabled |-> disabled \cup {i},
                       branch |-> IF outs[i] = "Ok" THEN i ELSE 3]

\* A plausible slip (no else branch, a loop around select!): nothing is
\* returned when every branch is disabled.
SelectPollNoElse(disabled, start, outs) ==
    LET st0 == [disabled |-> disabled, chosen |-> 0, pending |-> FALSE]
        st1 == PollBranch(st0, start, outs[start])
        st2 == PollBranch(st1, 3 - start, outs[3 - start])
    IN  [disabled |-> st2.disabled, branch |-> st2.chosen]

\* One poll of the select! expression: the branches are polled in a random
\* order (start is the first); the first ready branch whose value matches
\* Ok(_) is chosen (branch 1 or 2); when no branch is chosen and none is
\* pending, every branch is disabled and the else branch runs (branch 3);
\* otherwise the select! stays pending (branch 0). A poll that panicked
\* leaves no branch to run (4).
SelectPoll(disabled, start, outs) ==
    LET st0 == [disabled |-> disabled, chosen |-> 0, pending |-> FALSE]
        st1 == PollBranch(st0, start, outs[start])
        st2 == PollBranch(st1, 3 - start, outs[3 - start])
    IN  [disabled |-> st2.disabled,
         branch |-> IF st2.chosen # 0 THEN st2.chosen
                    ELSE IF st2.pending THEN 0
                    ELSE 3]

\* The select! of the race that was called: v4 and v5 have the same one.
SelectOf(via, disabled, start, outs) ==
    IF via = "race_v3" THEN SelectPollV3(disabled, start, outs)
    ELSE SelectPoll(disabled, start, outs)

\* A plausible slip (copy and paste): both handlers return url_1.
HandlerValueCopyPaste(r, b) ==
    IF b = 3 THEN Err("no successful response received") ELSE Ok(rUrl[r][1])

\* The value of the handler of branch b.
HandlerValue(r, b) ==
    IF b = 3 THEN Err("no successful response received") ELSE Ok(rUrl[r][b])

\* The task running race r is woken when a future it still polls is ready.
Woken(r) == \E i \in Branches \ rDisabled[r] : PingPoll(r, i) # {"Pending"}

\* A plausible slip: the futures are polled again after the call has returned.
SelectEnabledAfterDone(r) == rPhase[r] \in {"Pending", "Done"}

\* The select! expression is polled until it has produced its value.
SelectEnabled(r) == rPhase[r] = "Pending"

Silent == [kind |-> "silent", at |-> 0]

\* A plausible slip: race forwards no timeout.
EffectiveTimeoutNone(via, arg) == arg

\* race(url_1, url_2) calls race_with_configuration(url_1, url_2,
\* Some(DEFAULT_TIMEOUT)); race_with_configuration hands its own timeout
\* argument to both pings.
\* The races of v3 and v4 take no timeout and give none to their pings (0).
EffectiveTimeout(via, arg) ==
    IF via = "race" THEN DEFAULT_TIMEOUT
    ELSE IF via \in {"race_v3", "race_v4"} THEN 0
    ELSE arg

\* A plausible slip (the attempts spawned as tasks): a future that is let go
\* of keeps running.
AfterSelectDetached(fut) == fut

\* What becomes of a future when the select! that holds it goes away: one
\* that has not completed is dropped, and its request is cancelled.
AfterSelect(fut) == IF fut = "alive" THEN "dropped" ELSE fut

\* A plausible slip (one cancellation token shared by all calls): the return
\* of one call cancels the requests of every call.
DropOnReturnAll(r) == [q \in Races |-> [i \in Branches |-> AfterSelect(rFut[q][i])]]

\* The futures after call r has returned: the select! expression of call r
\* owns the two futures of call r and no others.
DropOnReturn(r) == [rFut EXCEPT ![r] = [i \in Branches |-> AfterSelect(@[i])]]

\* The calls of race(url_1, url_2) and of race_with_configuration(url_1,
\* url_2, timeout) at time 0: phase[r] tells whether call r is made
\* ("Pending") or not ("Idle"), via[r] which function is called and args[r]
\* its timeout argument. For a call that is made the client is built and the
\* select! starts with both branches enabled.
RaceInit(phase, via, urls, args, behs) ==
    /\ clock = 0
    /\ rUrl = urls
    /\ rVia = via
    /\ rArg = args
    /\ rTimeout = [r \in Races |-> EffectiveTimeout(via[r], args[r])]
    /\ rBeh = behs
    /\ rStart = [r \in Races |-> 0]
    /\ rPhase = phase
    /\ rDisabled = [r \in Races |-> {}]
    /\ rSeen = [r \in Races |-> <<"None", "None">>]
    /\ rSeenAt = [r \in Races |-> <<0, 0>>]
    /\ rFut = [r \in Races |-> <<"alive", "alive">>]
    /\ rBranch = [r \in Races |-> 0]
    /\ rResult = [r \in Races |-> NoResult]
    /\ rEnd = [r \in Races |-> 0]
    /\ rReturns = [r \in Races |-> 0]
    /\ rLate = [r \in Races |-> {}]

\* No call of race is made.
RaceNone ==
    RaceInit([r \in Races |-> "Idle"], [r \in Races |-> "race_with_configuration"],
             [r \in Races |-> <<"url_a", "url_a">>],
             [r \in Races |-> 0], [r \in Races |-> <<Silent, Silent>>])

\* The task of race r is woken and polls the select! expression once. When a
\* poll panics the call unwinds: it returns nothing to its caller and its
\* futures go away with it.
SelectWake(r) ==
    /\ SelectEnabled(r)
    /\ Woken(r)
    /\ \E start \in Branches, o1 \in PingPoll(r, 1), o2 \in PingPoll(r, 2) :
        LET outs == <<o1, o2>>
            p == SelectOf(rVia[r], rDisabled[r], start, outs)
            new == p.disabled \ rDisabled[r]
        IN  /\ rDisabled' = [rDisabled EXCEPT ![r] = p.disabled]
            /\ rSeen' = [rSeen EXCEPT ![r] =
                            [i \in Branches |-> IF i \in new THEN outs[i] ELSE @[i]]]
            /\ rSeenAt' = [rSeenAt EXCEPT ![r] =
                            [i \in Branches |-> IF i \in new THEN Elapsed(r) ELSE @[i]]]
            /\ rFut' = [rFut EXCEPT ![r] =
                            [i \in Branches |->
                                IF i \in new THEN "completed"
                                ELSE IF p.branch = 4 THEN AfterSelect(@[i])
                                ELSE @[i]]]
            /\ IF p.branch = 0
               THEN UNCHANGED <<rPhase, rBranch, rResult, rEnd>>
               ELSE IF p.branch = 4
               THEN /\ rPhase' = [rPhase EXCEPT ![r] = "Panicked"]
                    /\ rBranch' = [rBranch EXCEPT ![r] = p.branch]
                    /\ rEnd' = [rEnd EXCEPT ![r] = Elapsed(r)]
                    /\ UNCHANGED rResult
               ELSE /\ rPhase' = [rPhase EXCEPT ![r] = "Decided"]
                    /\ rBranch' = [rBranch EXCEPT ![r] = p.branch]
                    /\ rResult' = [rResult EXCEPT ![r] = HandlerValue(r, p.branch)]
                    /\ rEnd' = [rEnd EXCEPT ![r] = Elapsed(r)]
    /\ UNCHANGED <<clock, rUrl, rVia, rArg, rTimeout, rBeh, rStart, rReturns, rLate>>
    /\ UNCHANGED notRaceVars

\* The select! expression has its value: the futures it still held are
\* dropped, which cancels their requests, and the call returns the value.
RaceReturn(r) ==
    /\ rPhase[r] = "Decided"
    /\ rPhase' = [rPhase EXCEPT ![r] = "Done"]
    /\ rFut' = DropOnReturn(r)
    /\ rReturns' = [rReturns EXCEPT ![r] = @ + 1]
    /\ UNCHANGED <<clock, rUrl, rVia, rArg, rTimeout, rBeh, rStart, rDisabled, rSeen, rSeenAt,
                   rBranch, rResult, rEnd, rLate>>
    /\ UNCHANGED notRaceVars

\* The request of attempt i was given up before the server answered: its
\* future was dropped by select!, or it completed by the timeout.
Abandoned(r, i) ==
    /\ rBeh[r][i].kind \in {"2xx", "4xx", "error"}
    /\ \/ rFut[r][i] = "dropped"
       \/ rFut[r][i] = "completed" /\ rSeenAt[r][i] < rBeh[r][i].at

\* The server's answer to a request that was given up arrives: nobody polls
\* for it any more, so the answer goes nowhere.
LateResponse(r, i) ==
    /\ rPhase[r] \in {"Done", "Panicked"}
    /\ Abandoned(r, i)
    /\ i \notin rLate[r]
    /\ Elapsed(r) >= rBeh[r][i].at
    /\ rLate' = [rLate EXCEPT ![r] = @ \cup {i}]
    /\ UNCHANGED <<clock, rUrl, rVia, rArg, rTimeout, rBeh, rStart, rPhase, rDisabled, rSeen, rSeenAt,
                   rFut, rBranch, rResult, rEnd, rReturns>>
    /\ UNCHANGED notRaceVars

\* Race r has something to do right now.
Urgent(r) == rPhase[r] = "Decided" \/ (rPhase[r] = "Pending" /\ Woken(r))

\* Race r, or a request it left behind, is waiting for time to pass.
Waiting(r) ==
    \/ rPhase[r] = "Pending"
    \/ /\ rPhase[r] \in {"Done", "Panicked"}
       /\ \E i \in Branches : Abandoned(r, i) /\ i \notin rLate[r]

\* Time passes while no task has anything to do.
Tick ==
    /\ clock < MaxClock
    /\ \A r \in Races : ~Urgent(r)
    /\ \E r \in Races : Waiting(r)
    /\ clock' = clock + 1
    /\ UNCHANGED <<rUrl, rVia, rArg, rTimeout, rBeh, rStart, rPhase, rDisabled, rSeen, rSeenAt,
                   rFut, rBranch, rResult, rEnd, rReturns, rLate>>
    /\ UNCHANGED notRaceVars

(***************************************************************************)
(* check_websites: concurrency/src/v4.rs                                   *)
(***************************************************************************)

Targets == {"site_a", "site_b", "site_c"}

\* What checker.check(url) does in the task spawned for it: it returns true
\* or false, it panics, or it never returns.
CheckBehaviours == {"up", "down", "panic", "hang"}

EmptyMap == [u \in {} |-> FALSE]

\* check_websites(urls, checker) is called on a runtime with the given
\* worker threads (0: the scheduler is left open, any spawned task may finish
\* at any moment and no time is kept), each check taking delay ticks:
\* nothing is spawned yet.
CheckInit(urls, behs, workers, delay, track) ==
    /\ wUrls = urls
    /\ wBeh = behs
    /\ wPc = "spawning"
    /\ wTask = <<>>
    /\ wResponses = <<>>
    /\ wResult = EmptyMap
    /\ wWorkers = workers
    /\ wDelay = delay
    /\ wClock = 0
    /\ wLeft = <<>>
    /\ wTrack = track
    /\ wOrder = <<>>

\* No call of check_websites is made.
CheckNone ==
    /\ wUrls = <<>>
    /\ wBeh = <<>>
    /\ wPc = "idle"
    /\ wTask = <<>>
    /\ wResponses = <<>>
    /\ wResult = EmptyMap
    /\ wWorkers = 0
    /\ wDelay = 0
    /\ wClock = 0
    /\ wLeft = <<>>
    /\ wTrack = FALSE
    /\ wOrder = <<>>

\* What the JoinHandle of a finished task yields: Ok(is_up) when check
\* returned is_up, Err(JoinError) when the task panicked.
JoinOutput(task) ==
    IF task = "panicked" THEN [ok |-> FALSE, is_up |-> FALSE]
    ELSE [ok |-> TRUE, is_up |-> (task = "true")]

\* A plausible slip (Ok(_) => (url, true)): what the check returned is ignored.
MapResponseIgnoresOutcome(response) == response.ok

\* A plausible slip: a task that panicked is reported as up.
MapResponseErrIsUp(response) == IF response.ok THEN response.is_up ELSE TRUE

\* match response { Ok(is_up) => (url, is_up), Err(_) => (url, false) }
MapResponse(response) == IF response.ok THEN response.is_up ELSE FALSE

\* A plausible slip: the responses are paired with the urls in reverse.
ZipReversed(urls, responses) ==
    [i \in 1..(IF Len(urls) < Len(responses) THEN Len(urls) ELSE Len(responses)) |->
        <<urls[i], responses[Len(responses) + 1 - i]>>]

\* urls.iter().zip(responses): the i-th url with the i-th response, as far as
\* the shorter of the two goes.
Zip(urls, responses) ==
    [i \in 1..(IF Len(urls) < Len(responses) THEN Len(urls) ELSE Len(responses)) |->
        <<urls[i], responses[i]>>]

\* A plausible slip (entry(key).or_insert(value)): the first pair with a key
\* is kept.
RECURSIVE CollectHashMapKeepsFirst(_)
CollectHashMapKeepsFirst(pairs) ==
    IF pairs = <<>> THEN EmptyMap
    ELSE LET n == Len(pairs)
             before == CollectHashMapKeepsFirst(SubSeq(pairs, 1, n - 1))
             key == pairs[n][1]
         IN  [u \in DOMAIN before \cup {key} |->
                IF u \in DOMAIN before THEN before[u] ELSE pairs[n][2]]

\* .collect::<HashMap<_, _>>(): the pairs are inserted in order, a later
\* pair replacing an earlier one with the same key.
RECURSIVE CollectHashMap(_)
CollectHashMap(pairs) ==
    IF pairs = <<>> THEN EmptyMap
    ELSE LET n == Len(pairs)
             before == CollectHashMap(SubSeq(pairs, 1, n - 1))
             key == pairs[n][1]
         IN  [u \in DOMAIN before \cup {key} |-> IF u = key THEN pairs[n][2] ELSE before[u]]

\* check_websites of v1 and v2: the urls are checked one after the other in
\* slice order (v2 awaits each check before the next), and
\* results.insert(url, is_up) replaces the value of a url already present.
\* check is what checker.check returns for each url.
RECURSIVE CheckWebsitesSequential(_, _)
CheckWebsitesSequential(urls, check) ==
    IF urls = <<>> THEN EmptyMap
    ELSE LET n == Len(urls)
             results == CheckWebsitesSequential(SubSeq(urls, 1, n - 1), check)
             url == urls[n]
             is_up == check[url]
         IN  [u \in DOMAIN results \cup {url} |-> IF u = url THEN is_up ELSE results[u]]

\* A plausible slip (select_all, or a missing await): go on as soon as one
\* task has finished.
JoinReadyAny == \E i \in 1..Len(wTask) : wTask[i] \notin {"queued", "running"}

\* A plausible slip (try_join_all, or a handle that is unwrapped while
\* waiting): only tasks that returned count as finished.
JoinReadyReturnedOnly == \A i \in 1..Len(wTask) : wTask[i] \in {"true", "false"}

\* join_all(handles).await completes when every handle has completed.
JoinReady == \A i \in 1..Len(wTask) : wTask[i] \notin {"queued", "running"}

\* A plausible slip (the loop of v2): a check is awaited before the next
\* one is started.
SpawnReadySequential == \A i \in 1..Len(wTask) : wTask[i] \notin {"queued", "running"}

\* The closure given to map() only spawns: it awaits nothing, so the next
\* spawn never waits for a task.
SpawnReady == TRUE

\* A worker thread of the runtime has nothing to run.
FreeWorker == Cardinality({i \in 1..Len(wTask) : wTask[i] = "running"}) < wWorkers

\* A plausible slip (FuturesUnordered, or a channel): the outputs come in the
\* order in which the tasks finished.
JoinAllOutputsAsCompleted(tasks, order) ==
    [k \in 1..Len(order) |-> JoinOutput(tasks[order[k]])]

\* join_all(handles).await yields the outputs in the order of the handles,
\* whatever the order in which the tasks finished.
JoinAllOutputs(tasks, order) ==
    [i \in 1..Len(tasks) |-> JoinOutput(tasks[i])]

\* tokio::spawn(async move { checker.check(url).await }) for the next url.
Spawn ==
    /\ wPc = "spawning"
    /\ Len(wTask) < Len(wUrls)
    /\ SpawnReady
    /\ wTask' = Append(wTask, IF wWorkers = 0 THEN "running" ELSE "queued")
    /\ wLeft' = Append(wLeft, wDelay)
    /\ UNCHANGED <<wUrls, wBeh, wPc, wResponses, wResult,
                   wWorkers, wDelay, wClock, wTrack, wOrder>>
    /\ UNCHANGED notCheckVars

\* .collect::<Vec<_>>() has all the handles; join_all(handles) is awaited.
JoinAll ==
    /\ wPc = "spawning"
    /\ Len(wTask) = Len(wUrls)
    /\ wPc' = "joining"
    /\ UNCHANGED <<wUrls, wBeh, wTask, wResponses, wResult,
                   wWorkers, wDelay, wClock, wLeft, wTrack, wOrder>>
    /\ UNCHANGED notCheckVars

\* A free worker thread takes the task spawned for the i-th url.
TaskStart(i) ==
    /\ i \in 1..Len(wTask)
    /\ wTask[i] = "queued"
    /\ FreeWorker
    /\ wTask' = [wTask EXCEPT ![i] = "running"]
    /\ UNCHANGED <<wUrls, wBeh, wPc, wResponses, wResult,
                   wWorkers, wDelay, wClock, wLeft, wTrack, wOrder>>
    /\ UNCHANGED notCheckVars

\* The task spawned for the i-th url runs checker.check(url) to its end.
TaskFinish(i) ==
    /\ i \in 1..Len(wTask)
    /\ wTask[i] = "running"
    /\ wBeh[i] # "hang"
    /\ wLeft[i] = 0
    /\ wTask' = [wTask EXCEPT ![i] =
                    CASE wBeh[i] = "up" -> "true"
                      [] wBeh[i] = "down" -> "false"
                      [] OTHER -> "panicked"]
    /\ wOrder' = IF wTrack THEN Append(wOrder, i) ELSE wOrder
    /\ UNCHANGED <<wUrls, wBeh, wPc, wResponses, wResult,
                   wWorkers, wDelay, wClock, wLeft, wTrack>>
    /\ UNCHANGED notCheckVars

\* join_all(handles).await yields the outputs in the order of the handles.
JoinAllDone ==
    /\ wPc = "joining"
    /\ JoinReady
    /\ wResponses' = JoinAllOutputs(wTask, wOrder)
    /\ wPc' = "collecting"
    /\ UNCHANGED <<wUrls, wBeh, wTask, wResult,
                   wWorkers, wDelay, wClock, wLeft, wTrack, wOrder>>
    /\ UNCHANGED notCheckVars

\* urls.iter().zip(responses).map(..).collect(): the map is built and returned.
Collect ==
    /\ wPc = "collecting"
    /\ LET zipped == Zip(wUrls, wResponses)
       IN  wResult' = CollectHashMap([i \in DOMAIN zipped |->
                                        <<zipped[i][1], MapResponse(zipped[i][2])>>])
    /\ wPc' = "done"
    /\ UNCHANGED <<wUrls, wBeh, wTask, wResponses,
                   wWorkers, wDelay, wClock, wLeft, wTrack, wOrder>>
    /\ UNCHANGED notCheckVars

\* The thread running check_websites, or a worker, has something to do now.
CheckBusy ==
    \/ wPc = "spawning" /\ (Len(wTask) = Len(wUrls) \/ SpawnReady)
    \/ wPc = "joining" /\ JoinReady
    \/ wPc = "collecting"
    \/ \E i \in 1..Len(wTask) : wTask[i] = "queued" /\ FreeWorker
    \/ \E i \in 1..Len(wTask) : wTask[i] = "running" /\ wBeh[i] # "hang" /\ wLeft[i] = 0

\* A tick passes while the checks that are running keep their workers busy
\* and nothing else can be done.
CheckTick ==
    /\ wWorkers # 0
    /\ ~CheckBusy
    /\ \E i \in 1..Len(wTask) : wTask[i] = "running" /\ wLeft[i] > 0
    /\ wClock' = wClock + 1
    /\ wLeft' = [i \in 1..Len(wLeft) |->
                    IF wTask[i] = "running" /\ wLeft[i] > 0 THEN wLeft[i] - 1 ELSE wLeft[i]]
    /\ UNCHANGED <<wUrls, wBeh, wPc, wTask, wResponses, wResult,
                   wWorkers, wDelay, wTrack, wOrder>>
    /\ UNCHANGED notCheckVars

(***************************************************************************)
(* Wallet: errors/src/v5.rs                                                *)
(***************************************************************************)

\* BitCoin = u64, kept here at BitCoinBits bits.
BitCoinModulus == 2 ^ BitCoinBits
Amounts == 0..(BitCoinModulus - 1)

NoCall == [op |-> "none", amount |-> 0, before |-> 0, result |-> "none"]

\* Wallet::open(): Self { balance: 0 }
WalletOpen ==
    /\ balance = 0
    /\ walLast = NoCall
    /\ walCalls = 0
    /\ walDeposited = 0
    /\ walWithdrawn = 0
    /\ walPanicked = FALSE

\* self.balance += amount on a u64: the sum when it fits; when it does not,
\* the build decides: with overflow checks (the dev profile) the addition
\* panics, without them (the release profile) it wraps.
DepositOutcomes(b, amount) ==
    IF b + amount < BitCoinModulus
    THEN {[balance |-> b + amount, panicked |-> FALSE]}
    ELSE {[balance |-> (b + amount) % BitCoinModulus, panicked |-> FALSE],
          [balance |-> b, panicked |-> TRUE]}

\* if amount > self.balance { return Err(InsufficientFunds(..)) }
\* self.balance -= amount; Ok(())
WithdrawOutcome(b, amount) ==
    IF amount > b
    THEN [balance |-> b, result |-> "InsufficientFunds"]
    ELSE [balance |-> b - amount, result |-> "Ok"]

\* wallet.deposit(amount)
Deposit(amount) ==
    /\ ~walPanicked
    /\ walCalls < MaxWalletCalls
    /\ \E o \in DepositOutcomes(balance, amount) :
        /\ balance' = o.balance
        /\ walPanicked' = o.panicked
        /\ walDeposited' = IF o.panicked THEN walDeposited ELSE walDeposited + amount
        /\ walLast' = [op |-> "deposit", amount |-> amount, before |-> balance,
                       result |-> IF o.panicked THEN "panic" ELSE "()"]
    /\ walCalls' = walCalls + 1
    /\ UNCHANGED walWithdrawn
    /\ UNCHANGED notWalletVars

\* wallet.withdraw(amount)
Withdraw(amount) ==
    /\ ~walPanicked
    /\ walCalls < MaxWalletCalls
    /\ LET o == WithdrawOutcome(balance, amount)
       IN  /\ balance' = o.balance
           /\ walWithdrawn' = IF o.result = "Ok" THEN walWithdrawn + amount ELSE walWithdrawn
           /\ walLast' = [op |-> "withdraw", amount |-> amount, before |-> balance,
                          result |-> o.result]
    /\ walCalls' = walCalls + 1
    /\ UNCHANGED <<walDeposited, walPanicked>>
    /\ UNCHANGED notWalletVars

(***************************************************************************)
(* Dictionary: maps/src/v5.rs                                              *)
(***************************************************************************)

Keys == {"k1", "k2"}
Values == {"v1", "v2", "v3"}

EmptyDict == [k \in {} |-> ""]

\* Dictionary::new(): an empty map.
DictionaryNew ==
    /\ dict = EmptyDict
    /\ dLast = [op |-> "none", key |-> "", value |-> "", before |-> EmptyDict,
                result |-> [ok |-> TRUE, val |-> ""]]

\* self.0.get(key).map(|value| value.as_str()).ok_or_else(|| NotFound(key))
SearchResult(d, key) ==
    IF key \in DOMAIN d THEN [ok |-> TRUE, val |-> d[key]]
    ELSE [ok |-> FALSE, val |-> <<"NotFound", key>>]

\* A plausible slip (HashMap::insert in place of the entry): add overwrites.
AddOutcomeOverwrites(d, key, definition) ==
    [dict |-> [k \in DOMAIN d \cup {key} |-> IF k = key THEN definition ELSE d[k]],
     result |-> [ok |-> TRUE, val |-> "()"]]

\* match self.0.entry(key.clone()) { Occupied(_) => Err(AlreadyExists(key)),
\* Vacant(entry) => { entry.insert(value); Ok(()) } }
AddOutcome(d, key, definition) ==
    IF key \in DOMAIN d
    THEN [dict |-> d, result |-> [ok |-> FALSE, val |-> <<"AlreadyExists", key>>]]
    ELSE [dict |-> [k \in DOMAIN d \cup {key} |-> IF k = key THEN definition ELSE d[k]],
          result |-> [ok |-> TRUE, val |-> "()"]]

\* match self.0.entry(key.clone()) { Occupied(mut entry) => { entry.insert(value);
\* Ok(()) } Vacant(_) => Err(NotFound(key)) }
UpdateOutcome(d, key, definition) ==
    IF key \in DOMAIN d
    THEN [dict |-> [d EXCEPT ![key] = definition], result |-> [ok |-> TRUE, val |-> "()"]]
    ELSE [dict |-> d, result |-> [ok |-> FALSE, val |-> <<"NotFound", key>>]]

\* dictionary.search(key)
Search(key) ==
    /\ dLast' = [op |-> "search", key |-> key, value |-> "", before |-> dict,
                 result |-> SearchResult(dict, key)]
    /\ UNCHANGED dict
    /\ UNCHANGED notDictVars

\* dictionary.add(key, definition)
Add(key, definition) ==
    /\ LET o == AddOutcome(dict, key, definition)
       IN  /\ dict' = o.dict
           /\ dLast' = [op |-> "add", key |-> key, value |-> definition, before |-> dict,
                        result |-> o.result]
    /\ UNCHANGED notDictVars

\* dictionary.update(key, definition)
Update(key, definition) ==
    /\ LET o == UpdateOutcome(dict, key, definition)
       IN  /\ dict' = o.dict
           /\ dLast' = [op |-> "update", key |-> key, value |-> definition, before |-> dict,
                        result |-> o.result]
    /\ UNCHANGED notDictVars

(***************************************************************************)
(* countdown: mocking/src/v4.rs, mocking/src/lib.rs                        *)
(***************************************************************************)

\* No call of countdown is made.
CountdownIdle ==
    /\ cdPc = "idle"
    /\ cdI = 0
    /\ cdBuf = <<>>
    /\ cdOut = <<>>
    /\ cdOps = <<>>
    /\ cdWrites = 0
    /\ cdChunk = 0
    /\ cdFailAt = 0

\* const COUNTDOWN_START: usize = 3; const FINAL_WORD: &str = "Go!"
COUNTDOWN_START == 3
FINAL_WORD == <<"G", "o", "!">>

\* format!("{}\n", i).as_bytes(): the decimal digits of i, then a newline.
RECURSIVE Decimal(_)
Decimal(n) ==
    LET digit == <<"0", "1", "2", "3", "4", "5", "6", "7", "8", "9">>[(n % 10) + 1]
    IN  IF n < 10 THEN <<digit>> ELSE Append(Decimal(n \div 10), digit)

Format(i) == Append(Decimal(i), "\n")

\* countdown(out, sleeper) is called with a writer that takes at most chunk
\* bytes in one call of write and whose call number failAt fails (0: none):
\* the loop starts with i = COUNTDOWN_START.
CountdownCall(chunk, failAt) ==
    /\ cdPc = "write"
    /\ cdI = COUNTDOWN_START
    /\ cdBuf = <<>>
    /\ cdOut = <<>>
    /\ cdOps = <<>>
    /\ cdWrites = 0
    /\ cdChunk = chunk
    /\ cdFailAt = failAt

\* A plausible slip (the range 0..=COUNTDOWN_START): the loop goes down to 0.
AfterSleepDownToZero(i) ==
    IF i > 0 THEN [pc |-> "write", i |-> i - 1] ELSE [pc |-> "final", i |-> 0]

\* for i in (1..=COUNTDOWN_START).rev(): after the sleep of iteration i comes
\* iteration i - 1, and after that of iteration 1 the statement after the loop.
AfterSleep(i) ==
    IF i > 1 THEN [pc |-> "write", i |-> i - 1] ELSE [pc |-> "final", i |-> 0]

\* out.write_all(format!("{}\n", i).as_bytes()) is called.
WriteNumber ==
    /\ cdPc = "write"
    /\ cdBuf' = Format(cdI)
    /\ cdOps' = Append(cdOps, <<"write", Format(cdI)>>)
    /\ cdPc' = "writing"
    /\ UNCHANGED <<cdI, cdOut, cdWrites, cdChunk, cdFailAt>>
    /\ UNCHANGED notCountdownVars

\* out.write_all(FINAL_WORD.as_bytes()) is called.
WriteFinalWord ==
    /\ cdPc = "final"
    /\ cdBuf' = FINAL_WORD
    /\ cdOps' = Append(cdOps, <<"write", FINAL_WORD>>)
    /\ cdPc' = "final_writing"
    /\ UNCHANGED <<cdI, cdOut, cdWrites, cdChunk, cdFailAt>>
    /\ UNCHANGED notCountdownVars

\* write_all hands the bytes left to the writer: the writer takes some of
\* them, or fails, and then .unwrap() panics.
WriteStep ==
    /\ cdPc \in {"writing", "final_writing"}
    /\ cdBuf # <<>>
    /\ cdWrites' = cdWrites + 1
    /\ IF cdWrites + 1 = cdFailAt
       THEN /\ cdPc' = "panicked"
            /\ UNCHANGED <<cdBuf, cdOut>>
       ELSE LET n == IF cdChunk < Len(cdBuf) THEN cdChunk ELSE Len(cdBuf)
            IN  /\ cdOut' = cdOut \o SubSeq(cdBuf, 1, n)
                /\ cdBuf' = SubSeq(cdBuf, n + 1, Len(cdBuf))
                /\ UNCHANGED cdPc
    /\ UNCHANGED <<cdI, cdOps, cdChunk, cdFailAt>>
    /\ UNCHANGED notCountdownVars

\* write_all returns Ok(()) when every byte is taken; after the final word
\* countdown returns.
WriteAllReturn ==
    /\ cdPc \in {"writing", "final_writing"}
    /\ cdBuf = <<>>
    /\ cdPc' = IF cdPc = "writing" THEN "sleep" ELSE "done"
    /\ UNCHANGED <<cdI, cdBuf, cdOut, cdOps, cdWrites, cdChunk, cdFailAt>>
    /\ UNCHANGED notCountdownVars

\* sleeper.sleep(), and the loop goes on.
SleepCall ==
    /\ cdPc = "sleep"
    /\ cdOps' = Append(cdOps, <<"sleep">>)
    /\ cdPc' = AfterSleep(cdI).pc
    /\ cdI' = AfterSleep(cdI).i
    /\ UNCHANGED <<cdBuf, cdOut, cdWrites, cdChunk, cdFailAt>>
    /\ UNCHANGED notCountdownVars

\* The sequential examples before any call.
SequentialNew == WalletOpen /\ DictionaryNew /\ CountdownIdle

(***************************************************************************)
(* Specifications, one per component                                       *)
(***************************************************************************)

NextCounter ==
    \E t \in Tasks :
        \/ IncreaseCall(t)
        \/ WriteAcquire(t)
        \/ IncLoad(t)
        \/ IncStore(t)
        \/ WriteRelease(t)
        \/ ValueCall(t)
        \/ ReadAcquire(t)
        \/ ReadLoad(t)
        \/ ReadRelease(t)

InitCounter == CounterNew /\ RaceNone /\ CheckNone /\ SequentialNew

SpecCounter == InitCounter /\ [][NextCounter]_vars

\* The scheduler is fair to every task: a task that can go on inside
\* increase() or value(), or that can take the lock it waits for, does so in
\* the end. Nothing obliges a task to make a call.
FairCounter ==
    \A t \in Tasks :
        /\ WF_vars(WriteAcquire(t))
        /\ WF_vars(IncLoad(t))
        /\ WF_vars(IncStore(t))
        /\ WF_vars(WriteRelease(t))
        /\ WF_vars(ReadAcquire(t))
        /\ WF_vars(ReadLoad(t))
        /\ WF_vars(ReadRelease(t))

SpecCounterFair == InitCounter /\ [][NextCounter]_vars /\ FairCounter

NextWallet ==
    \/ \E amount \in Amounts : Deposit(amount)
    \/ \E amount \in Amounts : Withdraw(amount)

\* A wallet just opened, and up to MaxWalletCalls calls with any amounts.
InitWallet == CounterNew /\ RaceNone /\ CheckNone /\ SequentialNew

SpecWallet == InitWallet /\ [][NextWallet]_vars

NextDictionary ==
    \/ \E key \in Keys : Search(key)
    \/ \E key \in Keys, definition \in Values : Add(key, definition)
    \/ \E key \in Keys, definition \in Values : Update(key, definition)

\* An empty dictionary, and any calls of search, add and update after it.
InitDictionary == CounterNew /\ RaceNone /\ CheckNone /\ SequentialNew

SpecDictionary == InitDictionary /\ [][NextDictionary]_vars

NextCountdown ==
    \/ WriteNumber
    \/ WriteStep
    \/ WriteAllReturn
    \/ SleepCall
    \/ WriteFinalWord

\* One call of countdown, with a writer that takes 1 to MaxChunk bytes at a
\* time and never fails or fails at one of its first MaxFailAt calls.
InitCountdown ==
    /\ CounterNew /\ RaceNone /\ CheckNone /\ WalletOpen /\ DictionaryNew
    /\ \E chunk \in 1..MaxChunk, failAt \in 0..MaxFailAt : CountdownCall(chunk, failAt)

SpecCountdown == InitCountdown /\ [][NextCountdown]_vars

NextRace ==
    \/ \E r \in Races : SelectWake(r)
    \/ \E r \in Races : RaceReturn(r)
    \/ \E r \in Races, i \in Branches : LateResponse(r, i)
    \/ Tick

\* One call of race_with_configuration, with any two urls, any timeout and
\* any behaviour of the two servers.
InitRace ==
    /\ CounterNew
    /\ SequentialNew
    /\ CheckNone
    /\ \E u \in Urls \X Urls, T \in Timeouts, b \in Behaviours \X Behaviours :
            RaceInit([r \in Races |-> IF r = 1 THEN "Pending" ELSE "Idle"],
                     [r \in Races |-> "race_with_configuration"],
                     [r \in Races |-> IF r = 1 THEN u ELSE <<"url_a", "url_a">>],
                     [r \in Races |-> IF r = 1 THEN T ELSE 0],
                     [r \in Races |-> IF r = 1 THEN b ELSE <<Silent, Silent>>])

SpecRace == InitRace /\ [][NextRace]_vars

\* The race of v3 (call 1) and, for the same urls and servers, the race of
\* v4 or race_with_configuration of v5 with timeout None (call 2).
InitRaceVersions ==
    /\ CounterNew
    /\ SequentialNew
    /\ CheckNone
    /\ \E u \in Urls \X Urls, b \in Behaviours \X Behaviours,
          other \in {"race_v4", "race_with_configuration"} :
            RaceInit([r \in Races |-> "Pending"],
                     [r \in Races |-> IF r = 1 THEN "race_v3" ELSE other],
                     [r \in Races |-> u],
                     [r \in Races |-> 0],
                     [r \in Races |-> b])

SpecRaceVersions == InitRaceVersions /\ [][NextRace]_vars

\* One call of race_with_configuration in which the poll of at least one of
\* the two pings panics at some moment, unless the timeout comes first.
InitRacePanic ==
    /\ CounterNew
    /\ SequentialNew
    /\ CheckNone
    /\ \E u \in Urls \X Urls, T \in Timeouts,
          b \in ((Behaviours \cup PanicBehaviours) \X (Behaviours \cup PanicBehaviours))
                    \ (Behaviours \X Behaviours) :
            RaceInit([r \in Races |-> IF r = 1 THEN "Pending" ELSE "Idle"],
                     [r \in Races |-> "race_with_configuration"],
                     [r \in Races |-> IF r = 1 THEN u ELSE <<"url_a", "url_a">>],
                     [r \in Races |-> IF r = 1 THEN T ELSE 0],
                     [r \in Races |-> IF r = 1 THEN b ELSE <<Silent, Silent>>])

SpecRacePanic == InitRacePanic /\ [][NextRace]_vars

\* The servers of two calls that run at the same time: each answers with
\* success or fails, at once or late, or never answers.
TwoBehaviours ==
    [kind : {"2xx", "error"}, at : {0, MaxDelay}] \cup {Silent}

\* Two calls of race_with_configuration made at the same time by two tasks,
\* each with its own urls, timeout and servers.
InitRaceTwo ==
    /\ CounterNew
    /\ SequentialNew
    /\ CheckNone
    /\ \E T \in [Races -> {0, MaxTimeout - 1}],
          b \in [Races -> TwoBehaviours \X TwoBehaviours] :
            RaceInit([r \in Races |-> "Pending"],
                     [r \in Races |-> "race_with_configuration"],
                     [r \in Races |-> IF r = 1 THEN <<"url_a", "url_b">>
                                                ELSE <<"url_b", "url_a">>],
                     T, b)

SpecRaceTwo == InitRaceTwo /\ [][NextRace]_vars

\* The servers of a call bounded by the default timeout: they answer or fail
\* at once, just before, at or just after the default timeout, or never.
DefaultBehaviours ==
    [kind : {"2xx", "error"},
     at : {0, DEFAULT_TIMEOUT - 1, DEFAULT_TIMEOUT, DEFAULT_TIMEOUT + 1}] \cup {Silent}

\* race(url_1, url_2) as call 1 and, beside it, with the same urls and the
\* same servers, race_with_configuration(url_1, url_2, timeout) as call 2,
\* timeout being Some(DEFAULT_TIMEOUT), a shorter Some(T) or None.
InitRaceDefault ==
    /\ CounterNew
    /\ SequentialNew
    /\ CheckNone
    /\ \E a \in Timeouts \cup {DEFAULT_TIMEOUT},
          b \in DefaultBehaviours \X DefaultBehaviours :
            RaceInit([r \in Races |-> "Pending"],
                     [r \in Races |-> IF r = 1 THEN "race" ELSE "race_with_configuration"],
                     [r \in Races |-> <<"url_a", "url_b">>],
                     [r \in Races |-> IF r = 1 THEN 0 ELSE a],
                     [r \in Races |-> b])

SpecRaceDefault == InitRaceDefault /\ [][NextRace]_vars

NextCheck ==
    \/ Spawn
    \/ JoinAll
    \/ \E i \in 1..MaxUrls : TaskFinish(i)
    \/ JoinAllDone
    \/ Collect

\* One call of check_websites, with any slice of at most MaxUrls urls and
\* any behaviour of the checker for each of them.
InitCheck ==
    /\ CounterNew
    /\ SequentialNew
    /\ RaceNone
    /\ \E n \in 0..MaxUrls :
        \E urls \in [1..n -> Targets], behs \in [1..n -> CheckBehaviours] :
            CheckInit(urls, behs, 0, 0, FALSE)

SpecCheck == InitCheck /\ [][NextCheck]_vars

\* The runtime keeps running what can run: the caller and every spawned
\* task whose check returns or panics get their steps.
\* Whether the call returns does not depend on what the urls are: the slices
\* are one url repeated and the urls site_a, site_b, site_c in turn, with any
\* behaviour of the checker for each element.
InitCheckFair ==
    /\ CounterNew
    /\ SequentialNew
    /\ RaceNone
    /\ \E n \in 0..MaxUrls :
        \E urls \in {[i \in 1..n |-> "site_a"],
                      [i \in 1..n |-> <<"site_a", "site_b", "site_c">>[((i - 1) % 3) + 1]]},
           behs \in [1..n -> CheckBehaviours] :
            CheckInit(urls, behs, 0, 0, FALSE)

SpecCheckFair == InitCheckFair /\ [][NextCheck]_vars /\ WF_vars(NextCheck)

\* The same call with the order in which the tasks finish recorded, for
\* checks that all terminate.
InitCheckOrder ==
    /\ CounterNew
    /\ SequentialNew
    /\ RaceNone
    /\ \E n \in 0..MaxUrls :
        \E urls \in [1..n -> Targets], behs \in [1..n -> CheckBehaviours \ {"hang"}] :
            CheckInit(urls, behs, 0, 0, TRUE)

SpecCheckOrder == InitCheckOrder /\ [][NextCheck]_vars

NextCheckTimed ==
    \/ Spawn
    \/ JoinAll
    \/ \E i \in 1..MaxUrls : TaskStart(i)
    \/ \E i \in 1..MaxUrls : TaskFinish(i)
    \/ JoinAllDone
    \/ Collect
    \/ CheckTick

\* The call on a runtime with 1..MaxWorkers worker threads, every check
\* blocking its worker for the same 1..MaxCheckTime ticks and then returning
\* true (SlowWebsiteChecker).
InitCheckTimed ==
    /\ CounterNew
    /\ SequentialNew
    /\ RaceNone
    /\ \E n \in 0..MaxUrls, workers \in 1..MaxWorkers, delay \in 1..MaxCheckTime :
        \E urls \in [1..n -> Targets] :
            CheckInit(urls, [i \in 1..n |-> "up"], workers, delay, FALSE)

SpecCheckTimed == InitCheckTimed /\ [][NextCheckTimed]_vars

(***************************************************************************)
(* Claims about the Counter                                                *)
(***************************************************************************)

\* C1: starting from Counter::new(), whenever no call of increase() is in
\* flight, the counter holds exactly the number of increase() calls that have
\* returned, and a value() call that has read the counter at such a moment
\* got exactly that number: no update is lost and none is counted twice.
C1_NoLostUpdate ==
    IncInFlight = {} =>
        /\ value = incDone
        /\ incDone = incStarted
        /\ \A t \in Tasks : cpc[t] = "val_loaded" => cret[t] = incDone

\* C1 witness: MaxIncreases calls of increase(), some of them overlapping,
\* have all returned and a value() call has read the counter.
C1_Witness ==
    /\ IncInFlight = {}
    /\ incDone = MaxIncreases
    /\ overlapped
    /\ \E t \in Tasks : cpc[t] = "val_loaded" /\ cret[t] = MaxIncreases

\* C20: a value() call that has read the counter got a number that is at
\* least the number of increase() calls that had returned when it was called
\* and at most the number of increase() calls made so far, so at most the
\* number made when it returns; the number is one the counter has held, never
\* beyond the calls made; and it is not below any number a value() call had
\* returned before this one was called.
C20_LinearizableRead ==
    \A t \in Tasks :
        cpc[t] = "val_loaded" =>
            /\ cFloor[t] <= cret[t]
            /\ cret[t] <= incStarted
            /\ cret[t] \in 0..MaxIncreases
            /\ cPrev[t] <= cret[t]
            /\ maxReturned <= value

\* C20 witness: a value() call made after one increase() had returned, and
\* after an earlier value() call had returned a positive number, has read the
\* counter while increases went on: it read more than had returned when it
\* was called, and fewer than have been called by now.
C20_Witness ==
    \E t \in Tasks :
        /\ cpc[t] = "val_loaded"
        /\ cPrev[t] > 0
        /\ cFloor[t] > 0
        /\ cFloor[t] < cret[t]
        /\ cret[t] < incStarted

\* Tasks inside the critical section of increase() and of value().
Writing == {t \in Tasks : cpc[t] \in {"inc_locked", "inc_loaded", "inc_stored"}}
Reading == {t \in Tasks : cpc[t] \in {"val_locked", "val_loaded"}}

\* C21: under a fair scheduler every task is again and again outside any
\* call, so every call of increase() and of value() it makes gets the lock it
\* waits for and returns; a task outside a call holds no guard; and at no
\* moment are the tasks that are inside a call all unable to move.
C21_NoDeadlock ==
    /\ \A t \in Tasks : []<>(cpc[t] = "idle")
    /\ [](\A t \in Tasks : cpc[t] = "idle" => (writer # t /\ t \notin readers))
    /\ []((\E t \in Tasks : cpc[t] # "idle") =>
            \E t \in Tasks :
                ENABLED (WriteAcquire(t) \/ IncLoad(t) \/ IncStore(t) \/ WriteRelease(t)
                         \/ ReadAcquire(t) \/ ReadLoad(t) \/ ReadRelease(t)))

\* C21 witness: a call of increase() waits for the lock while another task
\* writes and a third waits to read.
C21_Witness ==
    \E t, u, v \in Tasks :
        /\ cpc[t] = "inc_wait"
        /\ cpc[u] = "inc_loaded"
        /\ cpc[v] = "val_wait"
        /\ incDone > 0

\* C22: at most one task is inside the critical section of increase(), and
\* then none is inside that of value(); the guards held are those of the tasks
\* inside; and a task waiting to read while no task writes or waits to write
\* can take its read guard, whoever reads already.
C22_LockDiscipline ==
    /\ Cardinality(Writing) <= 1
    /\ Writing # {} => Reading = {}
    /\ Writing = (IF writer = 0 THEN {} ELSE {writer})
    /\ Reading = readers
    /\ \A t \in Tasks :
        (cpc[t] = "val_wait" /\ Writing = {} /\ \A u \in Tasks : cpc[u] # "inc_wait")
            => ENABLED ReadAcquire(t)

\* C22 witness: two tasks are inside value() at the same time, after an
\* increase, and a call of increase() waits for them.
C22_Witness ==
    /\ Cardinality(Reading) >= 2
    /\ \E t \in Tasks : cpc[t] = "inc_wait"
    /\ value > 0

(***************************************************************************)
(* Claims about race                                                       *)
(***************************************************************************)

\* Vocabulary of the claims. An attempt succeeds when its ping returns Ok,
\* that is when the server answers before the timeout; it fails when its ping
\* returns Err, by a transport error or by the timeout.
Answers(r, i) == rBeh[r][i].kind \in {"2xx", "4xx"}
WouldSucceed(r, i) == Answers(r, i) /\ (rTimeout[r] = 0 \/ rBeh[r][i].at < rTimeout[r])
MaySucceed(r, i) == Answers(r, i) /\ (rTimeout[r] = 0 \/ rBeh[r][i].at <= rTimeout[r])
WouldFail(r, i) ==
    \/ rBeh[r][i].kind = "error"
    \/ rTimeout[r] # 0 /\ (rBeh[r][i].kind = "silent" \/ rBeh[r][i].at > rTimeout[r])
FailTime(r, i) ==
    IF rBeh[r][i].kind = "error" /\ (rTimeout[r] = 0 \/ rBeh[r][i].at <= rTimeout[r])
    THEN rBeh[r][i].at
    ELSE rTimeout[r]
Concluded(r) == rPhase[r] \in {"Decided", "Done"}
AllFailed == Err("no successful response received")

\* C2: when both attempts succeed and one succeeds strictly before the other,
\* the race concludes with the handler of the earlier attempt and returns its
\* url, at the time that attempt succeeded, in either argument position.
C2_FastestWins ==
    \A r \in Races : \A i \in Branches :
        (/\ Concluded(r)
         /\ WouldSucceed(r, 1) /\ WouldSucceed(r, 2)
         /\ rBeh[r][i].at < rBeh[r][3 - i].at)
        => /\ rBranch[r] = i
           /\ rResult[r] = Ok(rUrl[r][i])
           /\ rEnd[r] = rBeh[r][i].at

\* C2 witness: the slower server is url_1, the faster one url_2, and the race
\* has returned url_2.
C2_Witness ==
    /\ rPhase[1] = "Done"
    /\ WouldSucceed(1, 1) /\ WouldSucceed(1, 2)
    /\ rBeh[1][2].at < rBeh[1][1].at
    /\ rUrl[1][1] # rUrl[1][2]
    /\ rResult[1] = Ok(rUrl[1][2])

\* C3: a failed attempt does not end the race. While one attempt has failed
\* and the other has not completed the race stays pending; if one attempt
\* fails first and the other succeeds later the race returns the succeeding
\* url; and the race concludes with the else branch only when both attempts
\* have failed.
C3_FailureDoesNotEndRace ==
    \A r \in Races :
        /\ \A i \in Branches :
            (rSeen[r][i] = "Err" /\ rSeen[r][3 - i] = "None") => rPhase[r] = "Pending"
        /\ \A i \in Branches :
            (/\ Concluded(r)
             /\ WouldFail(r, i) /\ WouldSucceed(r, 3 - i)
             /\ FailTime(r, i) < rBeh[r][3 - i].at)
            => /\ rSeen[r][i] = "Err"
               /\ rBranch[r] = 3 - i
               /\ rResult[r] = Ok(rUrl[r][3 - i])
        /\ (Concluded(r) /\ (rBranch[r] = 3 \/ rResult[r] = AllFailed))
            => \A i \in Branches : rSeen[r][i] = "Err" /\ i \in rDisabled[r]

\* C3 witness: url_1 fails at once, url_2 answers later, the race returned url_2.
C3_Witness ==
    /\ rPhase[1] = "Done"
    /\ rBeh[1][1].kind = "error" /\ rBeh[1][1].at = 0
    /\ WouldSucceed(1, 2) /\ rBeh[1][2].at > 0
    /\ rSeen[1][1] = "Err" /\ rSeenAt[1][1] < rEnd[1]
    /\ rResult[1] = Ok(rUrl[1][2])

\* C4: when both attempts fail, the race concludes with the else branch and
\* returns Err("no successful response received"), once; until it has
\* returned it can always take a step, and it concludes no later than the
\* later of the two failures. Equal urls make no difference.
C4_AllFailed ==
    \A r \in Races :
        (WouldFail(r, 1) /\ WouldFail(r, 2) /\ rPhase[r] # "Idle")
        => /\ Concluded(r) => (rBranch[r] = 3 /\ rResult[r] = AllFailed)
           /\ ~Concluded(r) => rResult[r] = NoResult
           /\ rPhase[r] = "Done" => rReturns[r] = 1
           /\ rPhase[r] # "Done" => ENABLED NextRace
           /\ rPhase[r] = "Pending"
                => \E i \in Branches : Elapsed(r) <= FailTime(r, i)

\* C4 witness: both arguments are the same url, both requests failed, and the
\* race has returned the error.
C4_Witness ==
    /\ rPhase[1] = "Done"
    /\ rUrl[1][1] = rUrl[1][2]
    /\ rBeh[1][1].kind = "error" /\ rBeh[1][2].kind = "error"
    /\ rResult[1] = AllFailed
    /\ rReturns[1] = 1

\* C5: with timeout Some(T), when both servers need longer than T, the race
\* is never pending after T, it concludes at T with the error, and answers
\* that arrive after T leave the result as it is.
C5_TimeoutBoundsRace ==
    \A r \in Races :
        (/\ rPhase[r] # "Idle"
         /\ rTimeout[r] # 0
         /\ \A i \in Branches : rBeh[r][i].kind = "silent" \/ rBeh[r][i].at > rTimeout[r])
        => /\ Concluded(r) => (rResult[r] = AllFailed /\ rEnd[r] = rTimeout[r])
           /\ rPhase[r] = "Pending" => Elapsed(r) <= rTimeout[r]

\* C5 witness: both servers answer with success, but after the timeout; the
\* race has returned the error and both answers have arrived since.
C5_Witness ==
    /\ rPhase[1] = "Done"
    /\ rTimeout[1] # 0
    /\ \A i \in Branches : rBeh[1][i].kind = "2xx" /\ rBeh[1][i].at > rTimeout[1]
    /\ rLate[1] = Branches
    /\ rResult[1] = AllFailed
    /\ rEnd[1] = rTimeout[1]

\* C6: a call returns at most once, and exactly once when it is done; its
\* result is Ok(url) if and only if a ping returned Ok, url then being the url
\* of an attempt whose server answered within the timeout, and otherwise it
\* is Err("no successful response received"); an attempt that surely answers
\* within the timeout makes the result Ok. With a timeout, as race always
\* has, the call is never pending after the timeout.
C6_ExactlyOneResult ==
    \A r \in Races :
        /\ rReturns[r] <= 1
        /\ rPhase[r] = "Done" <=> rReturns[r] = 1
        /\ ~Concluded(r) => rResult[r] = NoResult
        /\ Concluded(r) =>
            /\ rResult[r].ok <=> (\E i \in Branches : rSeen[r][i] = "Ok")
            /\ rResult[r].ok =>
                \E i \in Branches :
                    /\ MaySucceed(r, i)
                    /\ rSeen[r][i] = "Ok"
                    /\ rBranch[r] = i
                    /\ rResult[r] = Ok(rUrl[r][i])
                    /\ rEnd[r] = rBeh[r][i].at
            /\ (\E i \in Branches : WouldSucceed(r, i)) => rResult[r].ok
            /\ ~rResult[r].ok => (rResult[r] = AllFailed /\ rBranch[r] = 3)
        /\ (rTimeout[r] # 0 /\ rPhase[r] = "Pending") => Elapsed(r) <= rTimeout[r]

\* C6 witness: a call with a timeout has returned Ok(url) once; one server
\* answered in time and the other did not.
C6_Witness ==
    /\ rPhase[1] = "Done"
    /\ rReturns[1] = 1
    /\ rTimeout[1] # 0
    /\ rResult[1].ok
    /\ \E i \in Branches : WouldSucceed(1, i) /\ WouldFail(1, 3 - i)

\* C7: once the select! has its value the result never changes: from Decided
\* the call only goes to Done, Done is never left, and neither the result nor
\* the chosen branch changes, whatever arrives later; an answer that arrives
\* late is never the one the result came from.
C7_ResultIsFinal ==
    /\ [][\A r \in Races :
            /\ rPhase[r] = "Decided" =>
                /\ rPhase'[r] \in {"Decided", "Done"}
                /\ rResult'[r] = rResult[r]
                /\ rBranch'[r] = rBranch[r]
            /\ rPhase[r] = "Done" =>
                /\ rPhase'[r] = "Done"
                /\ rResult'[r] = rResult[r]
                /\ rBranch'[r] = rBranch[r]
                /\ rReturns'[r] = rReturns[r]]_vars
    /\ [](\A r \in Races :
            Concluded(r) => (rBranch[r] \notin rLate[r]
                             /\ rResult[r] = HandlerValue(r, rBranch[r])))

\* C7 witness: the race returned url_1 and the answer of the other, different
\* server arrived afterwards.
C7_Witness ==
    /\ rPhase[1] = "Done"
    /\ rResult[1] = Ok(rUrl[1][1])
    /\ rUrl[1][1] # rUrl[1][2]
    /\ rBeh[1][2].kind = "2xx"
    /\ 2 \in rLate[1]

\* Both servers answer, within the timeout, on the same tick.
Tie(r) ==
    /\ WouldSucceed(r, 1) /\ WouldSucceed(r, 2)
    /\ rBeh[r][1].at = rBeh[r][2].at

\* C13: when both attempts succeed at the same moment the race is decided at
\* that moment by the handler of one of the two, whose url it returns; only
\* that attempt's success was taken from its future, the call returns once,
\* and it neither returns the error nor panics.
C13_TieHasOneWinner ==
    \A r \in Races :
        (Tie(r) /\ rPhase[r] # "Idle")
        => /\ rPhase[r] # "Panicked"
           /\ rReturns[r] <= 1
           /\ rPhase[r] = "Pending" => Elapsed(r) <= rBeh[r][1].at
           /\ Concluded(r) =>
                /\ rBranch[r] \in Branches
                /\ rResult[r] = Ok(rUrl[r][rBranch[r]])
                /\ rResult[r] # AllFailed
                /\ {i \in Branches : rSeen[r][i] = "Ok"} = {rBranch[r]}
                /\ rEnd[r] = rBeh[r][1].at

\* C13 witness: two different servers answered on the same tick and the race
\* returned the second url.
C13_Witness ==
    /\ rPhase[1] = "Done"
    /\ Tie(1)
    /\ rUrl[1][1] # rUrl[1][2]
    /\ rBranch[1] = 2
    /\ rResult[1] = Ok(rUrl[1][2])
    /\ rReturns[1] = 1

\* C14: the call returns at the moment the select! has its value, and with
\* that the future of the other attempt is dropped: once the call is done no
\* future of it is alive, a dropped future was never seen to complete and is
\* not the one the result came from, nothing of the call's futures changes
\* any more, and the answer to a dropped request is only ever recorded as
\* late.
C14_LoserCancelled ==
    /\ [][\A r \in Races :
            /\ rPhase[r] = "Decided" => clock' = clock
            /\ rPhase[r] = "Done" =>
                /\ rFut'[r] = rFut[r]
                /\ rSeen'[r] = rSeen[r]
                /\ rSeenAt'[r] = rSeenAt[r]
                /\ rDisabled'[r] = rDisabled[r]]_vars
    /\ [](\A r \in Races : rPhase[r] = "Done" =>
            \A i \in Branches :
                /\ rFut[r][i] \in {"completed", "dropped"}
                /\ rFut[r][i] = "dropped" =>
                    (rSeen[r][i] = "None" /\ rBranch[r] # i /\ rResult[r].ok)
                /\ i \in rLate[r] => rSeen[r][i] # "Ok")

\* C14 witness: the race returned url_2 while the request to url_1 was in
\* flight; its future was dropped, and the answer it would have had came
\* afterwards and went nowhere.
C14_Witness ==
    /\ rPhase[1] = "Done"
    /\ rBranch[1] = 2
    /\ rFut[1][1] = "dropped"
    /\ rSeen[1][1] = "None"
    /\ Answers(1, 1)
    /\ 1 \in rLate[1]
    /\ clock > rEnd[1]

\* The poll of attempt i panics before the timeout.
Panics(r, i) ==
    /\ rBeh[r][i].kind = "panic"
    /\ (rTimeout[r] = 0 \/ rBeh[r][i].at < rTimeout[r])

\* C15: a panic inside one attempt does not reach the caller and counts as
\* the failure of that attempt: the call never unwinds, and when it concludes
\* it returns the url of the other attempt if that one succeeds and
\* Err("no successful response received") if it fails or panics too.
C15_PanicIsFailure ==
    \A r \in Races : \A i \in Branches :
        (rPhase[r] # "Idle" /\ Panics(r, i))
        => /\ rPhase[r] # "Panicked"
           /\ Concluded(r) =>
                /\ WouldSucceed(r, 3 - i) => rResult[r] = Ok(rUrl[r][3 - i])
                /\ (WouldFail(r, 3 - i) \/ Panics(r, 3 - i)) => rResult[r] = AllFailed

\* C16: an attempt whose request is answered with a status that is not a
\* success is a failed attempt: its ping returns Err, and the url the race
\* returns is that of an attempt answered with a success status.
C16_NonSuccessIsFailure ==
    \A r \in Races :
        /\ \A i \in Branches :
            (rBeh[r][i].kind = "4xx" /\ rSeen[r][i] # "None") => rSeen[r][i] = "Err"
        /\ (Concluded(r) /\ rResult[r].ok) => rBeh[r][rBranch[r]].kind = "2xx"

\* Race r changes in this step.
Steps(r) ==
    \/ rPhase'[r] # rPhase[r]
    \/ rFut'[r] # rFut[r]
    \/ rSeen'[r] # rSeen[r]
    \/ rDisabled'[r] # rDisabled[r]
    \/ rLate'[r] # rLate[r]

\* Nothing of race q changes in this step.
Untouched(q) ==
    /\ rPhase'[q] = rPhase[q]
    /\ rFut'[q] = rFut[q]
    /\ rSeen'[q] = rSeen[q]
    /\ rSeenAt'[q] = rSeenAt[q]
    /\ rDisabled'[q] = rDisabled[q]
    /\ rBranch'[q] = rBranch[q]
    /\ rResult'[q] = rResult[q]
    /\ rEnd'[q] = rEnd[q]
    /\ rReturns'[q] = rReturns[q]
    /\ rLate'[q] = rLate[q]

\* What a call returns when it runs alone, said from its own urls, timeout
\* and servers only: Ok(url) of an attempt answered within the timeout and
\* not later than any attempt that surely succeeds, at the time of that
\* answer; the error when no attempt surely succeeds and none was seen to.
AsAlone(r) ==
    /\ (\E i \in Branches : WouldSucceed(r, i)) => rResult[r].ok
    /\ rResult[r].ok =>
        \E i \in Branches :
            /\ rBranch[r] = i
            /\ rResult[r] = Ok(rUrl[r][i])
            /\ MaySucceed(r, i)
            /\ rEnd[r] = rBeh[r][i].at
            /\ \A j \in Branches : WouldSucceed(r, j) => rBeh[r][j].at >= rBeh[r][i].at
    /\ ~rResult[r].ok =>
        /\ rResult[r] = AllFailed
        /\ \A i \in Branches : ~WouldSucceed(r, i)
        /\ rTimeout[r] # 0 => rEnd[r] <= rTimeout[r]

\* C17: two calls that run at the same time are independent. A step of one
\* call changes nothing of the other; while a call is pending every future it
\* has not seen complete is alive, whatever the other call has dropped; and
\* each call returns what it returns alone.
C17_RacesIndependent ==
    /\ [][\A r, q \in Races : (r # q /\ Steps(r)) => Untouched(q)]_vars
    /\ [](\A r \in Races :
            /\ rPhase[r] = "Pending" =>
                \A i \in Branches \ rDisabled[r] : rFut[r][i] = "alive"
            /\ (rTimeout[r] # 0 /\ rPhase[r] = "Pending") => Elapsed(r) <= rTimeout[r]
            /\ Concluded(r) => AsAlone(r))

\* C17 witness: call 1 returned a url and dropped the request it had in
\* flight while call 2 was pending; call 2 returned later the url of a
\* request that was in flight at that moment.
C17_Witness ==
    /\ rPhase[1] = "Done" /\ rPhase[2] = "Done"
    /\ rResult[1].ok /\ rResult[2].ok
    /\ \E i \in Branches : rFut[1][i] = "dropped"
    /\ rEnd[1] < rEnd[2]
    /\ rResult[2] = Ok(rUrl[2][rBranch[2]])

\* The servers and the timeout of call r leave one result possible: the two
\* answers do not come on the same tick, and no answer comes on the tick of
\* the timeout.
Deterministic(r) ==
    /\ ~Tie(r)
    /\ \A i \in Branches : ~(Answers(r, i) /\ rBeh[r][i].at = rTimeout[r])

\* C18: race(url_1, url_2) is race_with_configuration(url_1, url_2,
\* Some(DEFAULT_TIMEOUT)). The timeout given to the pings of race is the
\* default, that of race_with_configuration is the caller's; with the default
\* as the caller's value the two calls, made with the same urls and servers,
\* return the same value at the same time whenever one result is possible;
\* and each attempt on its own has completed by the effective timeout, by an
\* answer that came by then or else by the failure at the timeout.
C18_DefaultTimeout ==
    /\ \A r \in Races :
        /\ rVia[r] = "race" => rTimeout[r] = DEFAULT_TIMEOUT
        /\ rVia[r] = "race_with_configuration" => rTimeout[r] = rArg[r]
        /\ rTimeout[r] # 0 =>
            \A i \in Branches :
                /\ (rPhase[r] = "Pending" /\ i \notin rDisabled[r])
                        => Elapsed(r) <= rTimeout[r]
                /\ rSeen[r][i] # "None" => rSeenAt[r][i] <= rTimeout[r]
                /\ rSeen[r][i] = "Ok" => rBeh[r][i].at <= rTimeout[r]
                /\ (rSeen[r][i] # "None" /\ rSeenAt[r][i] < rBeh[r][i].at)
                        => (rSeen[r][i] = "Err" /\ rSeenAt[r][i] = rTimeout[r])
    /\ \A r, q \in Races :
        (/\ rVia[r] = "race" /\ rVia[q] = "race_with_configuration"
         /\ rArg[q] = DEFAULT_TIMEOUT
         /\ rUrl[r] = rUrl[q] /\ rBeh[r] = rBeh[q] /\ rStart[r] = rStart[q]
         /\ Deterministic(q)
         /\ Concluded(r) /\ Concluded(q))
        => /\ rResult[r] = rResult[q]
           /\ rBranch[r] = rBranch[q]
           /\ rEnd[r] = rEnd[q]

\* C18 witness: race and race_with_configuration with Some(DEFAULT_TIMEOUT)
\* were called with the same urls; one server answers just before the default
\* timeout and the other just after it; both calls returned the url of the
\* first at that time.
C18_Witness ==
    /\ rVia[1] = "race" /\ rVia[2] = "race_with_configuration"
    /\ rArg[2] = DEFAULT_TIMEOUT
    /\ rPhase[1] = "Done" /\ rPhase[2] = "Done"
    /\ rBeh[1][1] = [kind |-> "2xx", at |-> DEFAULT_TIMEOUT + 1]
    /\ rBeh[1][2] = [kind |-> "2xx", at |-> DEFAULT_TIMEOUT - 1]
    /\ rBeh[2] = rBeh[1]
    /\ rResult[1] = Ok(rUrl[1][2]) /\ rResult[2] = rResult[1]
    /\ rEnd[1] = DEFAULT_TIMEOUT - 1 /\ rEnd[2] = rEnd[1]
    /\ rSeen[1][1] = "None" /\ 1 \in rLate[1]

\* C19: with an effective timeout T the call is never pending later than T
\* after it started, whatever the servers do; until it has returned it can
\* always take a step; and what it returns, no later than T, is Ok(url) for
\* one of its urls or Err("no successful response received").
C19_NeverWaitsPastTimeout ==
    \A r \in Races :
        (rTimeout[r] # 0 /\ rPhase[r] # "Idle")
        => /\ rPhase[r] \in {"Pending", "Decided", "Done"}
           /\ rPhase[r] = "Pending" => Elapsed(r) <= rTimeout[r]
           /\ rPhase[r] # "Done" => ENABLED NextRace
           /\ Concluded(r) =>
                /\ rEnd[r] <= rTimeout[r]
                /\ \/ rResult[r] = AllFailed
                   \/ \E i \in Branches : rResult[r] = Ok(rUrl[r][i])

\* C19 witness: neither server ever answers, and the call has returned the
\* error at the timeout.
C19_Witness ==
    /\ rPhase[1] = "Done"
    /\ rTimeout[1] # 0
    /\ \A i \in Branches : rBeh[1][i].kind = "silent"
    /\ rResult[1] = AllFailed
    /\ rEnd[1] = rTimeout[1]
    /\ rReturns[1] = 1

(***************************************************************************)
(* Claims about check_websites                                             *)
(***************************************************************************)

\* Vocabulary of the claims.
UrlSet == {wUrls[i] : i \in 1..Len(wUrls)}
DistinctUrls == \A i, j \in 1..Len(wUrls) : wUrls[i] = wUrls[j] => i = j
LastOccurrence(i) == \A j \in 1..Len(wUrls) : wUrls[j] = wUrls[i] => j <= i

\* C8: for N distinct urls the returned map has exactly N entries, one per
\* url, and the entry of a url is true if and only if its check returned
\* true; for no urls the map is empty.
C8_OneEntryPerTarget ==
    (wPc = "done" /\ DistinctUrls)
    => /\ DOMAIN wResult = UrlSet
       /\ Cardinality(DOMAIN wResult) = Len(wUrls)
       /\ \A i \in 1..Len(wUrls) : wResult[wUrls[i]] = (wBeh[i] = "up")
       /\ wUrls = <<>> => wResult = EmptyMap

\* C8 witness: three distinct urls, one of them down, and the map returned.
C8_Witness ==
    /\ wPc = "done"
    /\ DistinctUrls
    /\ Len(wUrls) >= 3
    /\ \E i \in 1..Len(wUrls) :
        /\ wBeh[i] = "down"
        /\ \A j \in 1..Len(wUrls) : j # i => wBeh[j] = "up"
    /\ Cardinality(DOMAIN wResult) = Len(wUrls)

\* C9: a check that panics is caught at its task. The url (that does not occur
\* again later in the slice) is mapped to false, every other url has the
\* outcome of its own (last) check, the map is complete, and as long as no
\* check hangs check_websites can always go on until it has returned.
C9_PanicIsolated ==
    (\E k \in 1..Len(wUrls) : wBeh[k] = "panic")
    => /\ wPc = "done" =>
            /\ DOMAIN wResult = UrlSet
            /\ \A i \in 1..Len(wUrls) :
                LastOccurrence(i) =>
                    /\ wBeh[i] = "panic" => wResult[wUrls[i]] = FALSE
                    /\ wBeh[i] # "panic" => wResult[wUrls[i]] = (wBeh[i] = "up")
       /\ (wPc # "done" /\ \A i \in 1..Len(wUrls) : wBeh[i] # "hang")
            => ENABLED NextCheck

\* C9 witness: one check panicked, another returned true, and the map holds
\* false for the first url and true for the second.
C9_Witness ==
    /\ wPc = "done"
    /\ DistinctUrls
    /\ \E i, j \in 1..Len(wUrls) :
        /\ wBeh[i] = "panic" /\ wTask[i] = "panicked" /\ wResult[wUrls[i]] = FALSE
        /\ wBeh[j] = "up" /\ wResult[wUrls[j]] = TRUE

\* C10: the map is built and returned only when a task has been spawned for
\* every url and every task has terminated; until then nothing of the map
\* exists, and a check that never terminates keeps check_websites from
\* returning; the map returned lacks no url.
C10_ReturnsAfterAllTerminated ==
    /\ wPc \in {"collecting", "done"} =>
        /\ Len(wTask) = Len(wUrls)
        /\ \A i \in 1..Len(wTask) : wTask[i] # "running"
        /\ Len(wResponses) = Len(wUrls)
    /\ wPc = "done" => DOMAIN wResult = UrlSet
    /\ wPc # "done" => wResult = EmptyMap
    /\ (\E i \in 1..Len(wUrls) : wBeh[i] = "hang") => wPc \notin {"collecting", "done"}

\* C10 witness: join_all has completed for at least two urls whose tasks ended
\* in different ways, one of them by a panic.
C10_Witness ==
    /\ wPc = "collecting"
    /\ Len(wUrls) >= 2
    /\ \E i, j \in 1..Len(wTask) : wTask[i] = "panicked" /\ wTask[j] = "false"
    /\ \A i \in 1..Len(wTask) : wTask[i] # "running"

\* The map the inputs alone determine: every url of the slice, with the
\* outcome of the check made for its last occurrence.
ExpectedMap ==
    [u \in UrlSet |->
        LET last == CHOOSE i \in 1..Len(wUrls) : wUrls[i] = u /\ LastOccurrence(i)
        IN  wBeh[last] = "up"]

\* C11: whatever the order in which the tasks finished, the map returned is
\* the one the urls and the outcomes of their checks determine: every task
\* has finished, and each outcome is attached to the url it was computed for.
C11_OrderInsensitive ==
    wPc = "done" =>
        /\ wResult = ExpectedMap
        /\ Len(wOrder) = Len(wUrls)
        /\ \A i \in 1..Len(wUrls) : \E k \in 1..Len(wOrder) : wOrder[k] = i

\* C11 witness: three distinct urls with different outcomes, the tasks
\* finished in the reverse of the slice order, and the map was returned.
C11_Witness ==
    /\ wPc = "done"
    /\ DistinctUrls
    /\ Len(wUrls) >= 3
    /\ \A k \in 1..(Len(wOrder) - 1) : wOrder[k] > wOrder[k + 1]
    /\ \E i, j \in 1..Len(wUrls) : wBeh[i] = "up" /\ wBeh[j] = "down"
    /\ wResult = ExpectedMap

\* The least number of rounds in which w workers run n checks.
Rounds(n, w) == CHOOSE k \in 0..n : k * w >= n /\ (k = 0 \/ (k - 1) * w < n)

\* C12: the attempts are not serialized. While the tasks are being spawned
\* none of them is waited for (no time passes and every task spawned so far is
\* still in flight), and join_all is awaited only when all are spawned. With
\* at least as many workers as urls, N >= 1 checks of D ticks each are done
\* after D ticks; in general after D times the rounds the workers need.
C12_NotSerialized ==
    /\ wPc = "spawning" =>
        /\ wClock = 0
        /\ \A i \in 1..Len(wTask) : wTask[i] \in {"queued", "running"}
        /\ ENABLED (Spawn \/ JoinAll)
    /\ wPc \in {"joining", "collecting", "done"} => Len(wTask) = Len(wUrls)
    /\ (wPc = "done" /\ Len(wUrls) >= 1 /\ wWorkers >= Len(wUrls)) => wClock = wDelay
    /\ wPc = "done" => wClock = wDelay * Rounds(Len(wUrls), wWorkers)

\* C12 witness: three checks of two ticks each on three workers returned
\* after two ticks.
C12_Witness ==
    /\ wPc = "done"
    /\ Len(wUrls) >= 3
    /\ wWorkers >= Len(wUrls)
    /\ wDelay >= 2
    /\ wClock = wDelay

(***************************************************************************)
(* Claims about Wallet                                                     *)
(***************************************************************************)

\* C23: after any calls of deposit and withdraw on a wallet opened with
\* balance 0, a withdrawal of more than the balance returned InsufficientFunds
\* and left the balance as it was, a withdrawal of the balance or less
\* returned Ok and lowered the balance by the amount, and the balance is the
\* sum of the deposits less the sum of the successful withdrawals, never
\* below zero.
C23_BalanceIsDepositsLessWithdrawals ==
    /\ (walLast.op = "withdraw" /\ walLast.amount > walLast.before)
        => (walLast.result = "InsufficientFunds" /\ balance = walLast.before)
    /\ (walLast.op = "withdraw" /\ walLast.amount <= walLast.before)
        => (walLast.result = "Ok" /\ balance = walLast.before - walLast.amount)
    /\ balance = walDeposited - walWithdrawn
    /\ balance >= 0

(***************************************************************************)
(* Claims about Dictionary                                                 *)
(***************************************************************************)

\* The map d with key set to value, the other keys as they are.
With(d, key, definition) == [k \in DOMAIN d \cup {key} |-> IF k = key THEN definition ELSE d[k]]

\* C24: after any calls, the last call did what it should to the map it
\* found. add of an absent key returned Ok and stored the value, add of a
\* present key returned AlreadyExists and left the map as it was; update of a
\* present key returned Ok and replaced the value, update of an absent key
\* returned NotFound and inserted nothing; search returned the value stored
\* under a present key and NotFound for an absent one, and changed nothing.
C24_DictionaryOperations ==
    LET present == dLast.key \in DOMAIN dLast.before
    IN  /\ (dLast.op = "add" /\ ~present)
            => (dLast.result.ok /\ dict = With(dLast.before, dLast.key, dLast.value))
        /\ (dLast.op = "add" /\ present)
            => /\ dLast.result = [ok |-> FALSE, val |-> <<"AlreadyExists", dLast.key>>]
               /\ dict = dLast.before
        /\ (dLast.op = "update" /\ present)
            => /\ dLast.result.ok
               /\ dict = With(dLast.before, dLast.key, dLast.value)
               /\ DOMAIN dict = DOMAIN dLast.before
        /\ (dLast.op = "update" /\ ~present)
            => /\ dLast.result = [ok |-> FALSE, val |-> <<"NotFound", dLast.key>>]
               /\ dict = dLast.before
               /\ dLast.key \notin DOMAIN dict
        /\ (dLast.op = "search" /\ present)
            => (dLast.result = [ok |-> TRUE, val |-> dLast.before[dLast.key]]
                /\ dict = dLast.before)
        /\ (dLast.op = "search" /\ ~present)
            => (dLast.result = [ok |-> FALSE, val |-> <<"NotFound", dLast.key>>]
                /\ dict = dLast.before)

\* C24 witness: add was called for a key that was present, with a value other
\* than the one stored; it returned AlreadyExists and the stored value stays.
C24_Witness ==
    /\ dLast.op = "add"
    /\ dLast.key \in DOMAIN dLast.before
    /\ dLast.before[dLast.key] # dLast.value
    /\ ~dLast.result.ok
    /\ dict[dLast.key] = dLast.before[dLast.key]
    /\ DOMAIN dict = Keys

(***************************************************************************)
(* Claims about countdown                                                  *)
(***************************************************************************)

IsPrefix(a, b) == Len(a) <= Len(b) /\ a = SubSeq(b, 1, Len(a))

ExpectedOps ==
    << <<"write", <<"3", "\n">> >>, <<"sleep">>,
       <<"write", <<"2", "\n">> >>, <<"sleep">>,
       <<"write", <<"1", "\n">> >>, <<"sleep">>,
       <<"write", <<"G", "o", "!">> >> >>

ExpectedOutput == <<"3", "\n", "2", "\n", "1", "\n", "G", "o", "!">>

\* C25: at every moment the operations countdown has performed are the
\* beginning of write "3", sleep, write "2", sleep, write "1", sleep, write
\* "Go!", and what the writer has taken is the beginning of "3\n2\n1\nGo!";
\* when countdown has returned they are the whole of it, 4 writes and 3
\* sleeps with no sleep after the last write; and countdown stops short only
\* by the panic on a write that failed.
C25_CountdownOrder ==
    /\ IsPrefix(cdOps, ExpectedOps)
    /\ IsPrefix(cdOut, ExpectedOutput)
    /\ cdPc = "done" =>
        /\ cdOps = ExpectedOps
        /\ cdOut = ExpectedOutput
        /\ Cardinality({k \in 1..Len(cdOps) : cdOps[k][1] = "write"}) = 4
        /\ Cardinality({k \in 1..Len(cdOps) : cdOps[k][1] = "sleep"}) = 3
        /\ cdOps[Len(cdOps)][1] = "write"
    /\ cdPc = "panicked" => (cdFailAt # 0 /\ cdWrites = cdFailAt)
    /\ cdPc \notin {"done", "panicked"} => ENABLED NextCountdown

\* C25 witness: countdown has returned with a writer that took one byte at a
\* time and never failed.
C25_Witness ==
    /\ cdPc = "done"
    /\ cdChunk = 1
    /\ cdFailAt = 0
    /\ cdWrites = Len(ExpectedOutput)
    /\ cdOut = ExpectedOutput
    /\ Len(cdOps) = 7

(***************************************************************************)
(* Claims about check_websites with repeated urls                          *)
(***************************************************************************)

\* C26: when a url occurs more than once in the slice, a task is spawned for
\* every element of the slice and ends with the outcome of the check made
\* for that element; the map returned has one entry for each distinct url,
\* its value is the outcome of the task of the last occurrence of the url,
\* and the map has fewer entries than the slice has elements.
C26_DuplicateTargets ==
    ~DistinctUrls =>
        /\ wPc \in {"joining", "collecting", "done"} => Len(wTask) = Len(wUrls)
        /\ wPc \in {"collecting", "done"} =>
            \A i \in 1..Len(wUrls) :
                wTask[i] = (CASE wBeh[i] = "up" -> "true"
                              [] wBeh[i] = "down" -> "false"
                              [] OTHER -> "panicked")
        /\ wPc = "done" =>
            /\ DOMAIN wResult = UrlSet
            /\ Cardinality(DOMAIN wResult) < Len(wUrls)
            /\ \A i \in 1..Len(wUrls) :
                (\A j \in (i + 1)..Len(wUrls) : wUrls[j] # wUrls[i])
                    => wResult[wUrls[i]] = (wTask[i] = "true")

\* C26 witness: the first and the last of three elements are the same url,
\* its first check returned true and its last false, and the map returned
\* has two entries with false for that url.
C26_Witness ==
    /\ wPc = "done"
    /\ Len(wUrls) = 3
    /\ wUrls[1] = wUrls[3]
    /\ wUrls[2] # wUrls[1]
    /\ wTask[1] = "true"
    /\ wTask[3] = "false"
    /\ Len(wTask) = 3
    /\ Cardinality(DOMAIN wResult) = 2
    /\ wResult[wUrls[1]] = FALSE

\* The checker returns for every occurrence of a url the same outcome, and
\* never panics.
OutcomeDependsOnTarget ==
    /\ \A i, j \in 1..Len(wUrls) : wUrls[i] = wUrls[j] => wBeh[i] = wBeh[j]
    /\ \A i \in 1..Len(wUrls) : wBeh[i] # "panic"

\* What that checker returns for each url of the slice.
CheckerOf == [u \in UrlSet |-> \E i \in 1..Len(wUrls) : wUrls[i] = u /\ wBeh[i] = "up"]

\* C27: for a checker that does not panic and whose outcome depends only on
\* the url, the map the concurrent check_websites returns is the map the
\* sequential check_websites of v1 and v2 returns for the same slice and
\* checker, whether or not the slice repeats urls.
C27_SameAsSequential ==
    (wPc = "done" /\ OutcomeDependsOnTarget)
        => wResult = CheckWebsitesSequential(wUrls, CheckerOf)

\* C27 witness: a slice of three elements that repeats a url, one url up and
\* another down, and the map returned is that of the sequential version.
C27_Witness ==
    /\ wPc = "done"
    /\ OutcomeDependsOnTarget
    /\ Len(wUrls) = 3
    /\ ~DistinctUrls
    /\ \E i, j \in 1..Len(wUrls) : wBeh[i] = "up" /\ wBeh[j] = "down"
    /\ wResult = CheckWebsitesSequential(wUrls, CheckerOf)
    /\ Cardinality(DOMAIN wResult) = 2

(***************************************************************************)
(* Claims about the versions of race                                       *)
(***************************************************************************)

\* The attempt that decided call r of the v3 race.
Decider(r) == CHOOSE i \in Branches : i \in rDisabled[r]

\* Both attempts of call r succeed at the same moment.
SuccessTie(r) ==
    /\ SendResult(rBeh[r][1]) = "Ok" /\ SendResult(rBeh[r][2]) = "Ok"
    /\ rBeh[r][1].at = rBeh[r][2].at

Hangs(i) == wBeh[i] = "hang"

\* C29: check_websites returns if and only if every check terminates. When
\* every check returns or panics, check_websites eventually returns; when a
\* check never returns, check_websites never gets past join_all, and it
\* stays there for good once every other task has finished.
C29_ReturnsIffAllTerminate ==
    /\ (\A i \in 1..Len(wUrls) : ~Hangs(i)) => <>(wPc = "done")
    /\ []((\E i \in 1..Len(wUrls) : Hangs(i)) => wPc \notin {"collecting", "done"})
    /\ (\E i \in 1..Len(wUrls) : Hangs(i)) =>
            <>[](/\ wPc = "joining"
                 /\ \A i \in 1..Len(wUrls) :
                        IF Hangs(i) THEN wTask[i] = "running"
                        ELSE wTask[i] \in {"true", "false", "panicked"})

\* C29 witness: of three checks one never returns, the two others have
\* finished, one by a panic, and check_websites is still in join_all.
C29_Witness ==
    /\ wPc = "joining"
    /\ Len(wUrls) = 3
    /\ Cardinality({i \in 1..Len(wUrls) : Hangs(i)}) = 1
    /\ \A i \in 1..Len(wUrls) : Hangs(i) <=> wTask[i] = "running"
    /\ \E i, j \in 1..Len(wUrls) : wTask[i] = "panicked" /\ wTask[j] = "true"
    /\ wResult = EmptyMap

\* C30: race_with_configuration called with timeout None gives its pings no
\* timeout, and an attempt fails only by an error of its own request. The
\* call has a result only when one attempt has succeeded (its url) or both
\* have failed (Err); when one server never answers and the other attempt
\* does not succeed, the call stays pending without a result, however much
\* time passes.
C30_NoTimeoutNeverReturns ==
    \A r \in Races :
        (rVia[r] = "race_with_configuration" /\ rArg[r] = 0 /\ rPhase[r] # "Idle") =>
            /\ rTimeout[r] = 0
            /\ \A i \in Branches :
                rSeen[r][i] = "Err" => (rBeh[r][i].kind = "error" /\ rSeenAt[r][i] = rBeh[r][i].at)
            /\ Concluded(r) =>
                \/ /\ rBranch[r] \in Branches
                   /\ rSeen[r][rBranch[r]] = "Ok"
                   /\ rResult[r] = Ok(rUrl[r][rBranch[r]])
                \/ /\ rBranch[r] = 3
                   /\ \A i \in Branches : rSeen[r][i] = "Err"
                   /\ rResult[r] = AllFailed
            /\ (\E i \in Branches : rBeh[r][i] = Silent /\ ~Answers(r, 3 - i)) =>
                /\ rPhase[r] = "Pending"
                /\ rResult[r] = NoResult
                /\ rReturns[r] = 0

\* C30 witness: with timeout None the second server never answers, the
\* request to the first failed MaxDelay ticks after the call, and later
\* still the call is pending.
C30_Witness ==
    /\ rVia[1] = "race_with_configuration" /\ rArg[1] = 0
    /\ rBeh[1][2] = Silent
    /\ rBeh[1][1] = [kind |-> "error", at |-> MaxDelay]
    /\ rSeen[1] = <<"Err", "None">>
    /\ clock > MaxDelay
    /\ rPhase[1] = "Pending"
    /\ rResult[1] = NoResult

====
